---- MODULE Spec2Model ----
(***************************************************************************)
(* A model of the spatial aggregation and hierarchical roll-up engine of   *)
(* rra-flooding: aggregate/pixel_main.py (location masks, population       *)
(* weighted sums per block) and aggregate/pixel_hierarchy.py (roll-up of   *)
(* the most-detailed records through the location hierarchy, per-capita    *)
(* values, subset views).                                                  *)
(*                                                                         *)
(* Numbers: weighted sums and populations are exact integers; a float that *)
(* can be NaN or infinite is a record [k, n, d] (see Div).  float32        *)
(* rounding is not modelled.                                               *)
(***************************************************************************)
EXTENDS Integers, Sequences, FiniteSets, TLC

(***************************************************************************)
(* Bounds of the model.                                                    *)
(***************************************************************************)
NYears == 2
\* the days of the year of the daily file in the model
MaxDays == 3
\* the blocks of the modeling frame in the model
NBlocks == 3
TileW == 4
TileH == 4
BigTile == 24

\* years = list(range(1970, 2101)); the model keeps the first NYears of them
FirstYear == 1970
Years == FirstYear..(FirstYear + NYears - 1)

VARIABLES
    \* ---- pixel_main.py: build_location_masks / pixel_main
    crs,           \* the CRS of the population raster of the block
    width,         \* its width in pixels
    height,        \* its height in pixels
    raking_shapes, \* the shapes load_raking_shapes returns, in file order
    pop_raster,    \* which population rasters the block has (see PopSample)
    climate,       \* which climate data the model has (see ClimateSample)
    available,     \* the scenarios the model has a climate file for
    ppc,           \* where pixel_main stands
    perr,          \* the exception pixel_main died of, if any
    shape_values,  \* (shape, location id) of the shapes that meet the block
    bounds_map,    \* final_bounds_map: location id -> (rows, cols, mask)
    scen_i,        \* index of the next scenario of the loop
    result_records,\* the records appended so far
    rawFile,       \* raw-results/<hierarchy>/<model>/<block>/<var>/000.parquet
    \* ---- pixel_hierarchy.py: hierarchy_main / aggregate_climate_to_hierarchy
    scenario,      \* the --scenario argument of hierarchy_main
    draw_df,       \* the most-detailed records handed to the roll-up
    results,       \* the working set of aggregate_climate_to_hierarchy
    level,         \* the level the loop of the roll-up processes next
    hpc,           \* where hierarchy_main stands
    herr,          \* the exception hierarchy_main died of, if any
    combined,      \* combined_results: (location_id, year_id, value)
    pop_df,        \* pop_df: (location_id, year_id, population)
    view_i,        \* index of the next subset hierarchy to project
    outFiles,      \* the files under results/output/<subset hierarchy>/
    \* ---- 01_pixel_main_parallel.py, 02_pixel_hierarchy_mean_parallel.py
    submitted,     \* the launcher scripts whose workflow.run() was called
    running,       \* the tasks the scheduler has started and not finished
    finished,      \* the tasks that are done
    \* ---- cama/adjust_daily_netcdf.py: standardize_flooding_fraction
    input_exists,  \* whether the base file of the year exists
    adjustment,    \* the entry of the configuration for --adjustment_num
    daily,         \* the daily values of one pixel in the base file
    adjusted,      \* the daily values of the pixel in the file saved
    apc,           \* where standardize_flooding_fraction stands
    \* ---- aggregate/pixel_mean_generation.py
    m_entry,       \* the entry of the configuration for --adjustment_num
    produced,      \* model -> the result file hierarchy_main wrote for it
    meanFile,      \* <covariate>_<scenario>_mean_<variant>.parquet
    mpc,           \* where pixel_mean_generation.py stands
    merr,          \* the exception it died of, if any
    \* ---- the raw-results tree beyond the block of pixel_main
    block_files    \* the files of the other blocks of the modeling frame

hvars == <<scenario, draw_df, results, level, hpc, herr, combined, pop_df,
           view_i, outFiles>>

pvars == <<crs, width, height, raking_shapes, pop_raster, climate, available,
           ppc, perr, shape_values, bounds_map, scen_i, result_records, rawFile>>

wvars == <<submitted, running, finished>>

avars == <<input_exists, adjustment, daily, adjusted, apc>>

mvars == <<m_entry, produced, meanFile, mpc, merr>>

bvars == <<block_files>>

vars == <<pvars, hvars, wvars, avars, mvars, bvars>>

(***************************************************************************)
(* Generic helpers.                                                        *)
(***************************************************************************)
Max(a, b) == IF a >= b THEN a ELSE b
Min(a, b) == IF a <= b THEN a ELSE b

Range(s) == {s[i] : i \in DOMAIN s}

RECURSIVE SelectSeqBy(_, _)
\* s restricted to the positions in I, order kept
SelectSeqBy(s, I) ==
    IF s = <<>> THEN <<>>
    ELSE LET n == Len(s)
             init == SelectSeqBy(SubSeq(s, 1, n - 1), I)
         IN IF n \in I THEN Append(init, s[n]) ELSE init

RECURSIVE SumWeighted(_, _)
\* the sum of weighted_climate over the positions I of s
SumWeighted(s, I) ==
    IF I = {} THEN 0
    ELSE LET i == CHOOSE j \in I : TRUE
         IN s[i].weighted_climate + SumWeighted(s, I \ {i})

RECURSIVE SumPopulation(_, _)
\* the sum of population over the positions I of s
SumPopulation(s, I) ==
    IF I = {} THEN 0
    ELSE LET i == CHOOSE j \in I : TRUE
         IN s[i].population + SumPopulation(s, I \ {i})

\* lexicographic order on (location_id, year_id)
LocYearLess(a, b) ==
    \/ a.location_id < b.location_id
    \/ a.location_id = b.location_id /\ a.year_id < b.year_id

\* lexicographic order on (year_id, location_id): the order of groupby's keys
YearLocLess(a, b) ==
    \/ a.year_id < b.year_id
    \/ a.year_id = b.year_id /\ a.location_id < b.location_id

RECURSIVE InsertStable(_, _)
\* x put into the sorted sequence s after every element not greater than it
InsertStable(s, x) ==
    IF s = <<>> THEN <<x>>
    ELSE IF LocYearLess(x, s[Len(s)])
         THEN Append(InsertStable(SubSeq(s, 1, Len(s) - 1), x), s[Len(s)])
         ELSE Append(s, x)

RECURSIVE SortValues(_)
\* DataFrame.sort_values(["location_id", "year_id"]): pandas sorts on several
\* columns with a lexsort, which keeps ties in their order
SortValues(s) ==
    IF s = <<>> THEN <<>>
    ELSE InsertStable(SortValues(SubSeq(s, 1, Len(s) - 1)), s[Len(s)])

RECURSIVE SetToSeq(_)
SetToSeq(S) ==
    IF S = {} THEN <<>>
    ELSE LET x == CHOOSE y \in S : TRUE IN <<x>> \o SetToSeq(S \ {x})

(***************************************************************************)
(* Floats that may be NaN or infinite: the quotient of two exact sums.     *)
(***************************************************************************)
NaN == [k |-> "nan", n |-> 0, d |-> 1]
Inf == [k |-> "inf", n |-> 1, d |-> 1]
NegInf == [k |-> "inf", n |-> -1, d |-> 1]
Num(n, d) == [k |-> "num", n |-> n, d |-> d]

\* numpy float division a / b of two finite numbers: 0/0 is NaN, x/0 is +-inf
Div(a, b) ==
    IF b = 0
    THEN IF a = 0 THEN NaN ELSE IF a > 0 THEN Inf ELSE NegInf
    ELSE IF b > 0 THEN Num(a, b) ELSE Num(-a, -b)

\* numpy float product of a float v and a finite number p
Times(v, p) ==
    IF v.k = "nan" THEN NaN
    ELSE IF v.k = "inf"
         THEN IF p = 0 THEN NaN ELSE IF p > 0 THEN v ELSE [v EXCEPT !.n = -v.n]
         ELSE Num(v.n * p, v.d)

IsFinite(v) == v.k = "num"
IsZero(v) == v.k = "num" /\ v.n = 0
IsNonNegative(v) == v.k = "num" /\ v.n >= 0

(***************************************************************************)
(* The hierarchy table read by hierarchy_main (hierarchy_<name>.parquet):  *)
(* rows (location_id, parent_id, level).  Locations 10, 20 are children of *)
(* 1, 99 is the child of 2, and 1 and 2 are children of the root 0, whose   *)
(* row names itself as its parent.                                         *)
(***************************************************************************)
HierarchyTable == {
    [location_id |-> 0,  parent_id |-> 0, level |-> 0],
    [location_id |-> 1,  parent_id |-> 0, level |-> 1],
    [location_id |-> 2,  parent_id |-> 0, level |-> 1],
    [location_id |-> 10, parent_id |-> 1, level |-> 2],
    [location_id |-> 20, parent_id |-> 1, level |-> 2],
    [location_id |-> 99, parent_id |-> 2, level |-> 2] }

HierarchyLocations == {h.location_id : h \in HierarchyTable}
\* the mutant of MaxLevel: the deepest level is left out of the loop
MaxLevelExclusive ==
    (CHOOSE l \in {h.level : h \in HierarchyTable} :
        \A h \in HierarchyTable : h.level <= l) - 1

\* hierarchy.level.max()
MaxLevel == CHOOSE l \in {h.level : h \in HierarchyTable} :
                \A h \in HierarchyTable : h.level <= l

\* ["ssp126", "ssp245", "ssp585"]
Scenarios == <<"ssp126", "ssp245", "ssp585">>

(***************************************************************************)
(* pixel_main.py: the raster of a block.  Coordinates are integers; the    *)
(* transform of the population raster has pixels of Res units, north up,   *)
(* no rotation.  A shape is the rectangle [xmin, ymin, xmax, ymax].        *)
(***************************************************************************)
Res == 3
Ratio == 2

\* pixel_buffer = 10
pixel_buffer == 10

\* MAX_BOUNDS, (xmin, xmax, ymin, ymax) in whole metres
MAX_BOUNDS ==
    "ESRI:54034" :> <<-20037508, 20037508, -6363885, 6363885>>

\* template.transform: x = c + a * col, y = f + e * row
Transform == [a |-> Res, c |-> 30, e |-> -Res, f |-> 60]

Rect(xmin, ymin, xmax, ymax) ==
    [xmin |-> xmin, ymin |-> ymin, xmax |-> xmax, ymax |-> ymax]

\* raster.bounds of a raster of w x h pixels
RasterBounds(w, h) ==
    Rect(Transform.c, Transform.f + Transform.e * h,
         Transform.c + Transform.a * w, Transform.f)

\* np.clip(v, lo, hi)
Clip(v, lo, hi) == Max(lo, Min(v, hi))

\* get_bbox: the bounds of the raster clipped to the maximum bounds of its
\* CRS.  The reference CRS maps each axis monotonically, so two rectangles
\* meet in it exactly when they meet in the CRS of the raster; the box is
\* kept in the units of the raster.
GetBBox(c, w, h) ==
    LET m == MAX_BOUNDS[c]
        b == RasterBounds(w, h)
    IN Rect(Clip(b.xmin, m[1], m[2]), Clip(b.ymin, m[3], m[4]),
            Clip(b.xmax, m[1], m[2]), Clip(b.ymax, m[3], m[4]))

\* shapely intersects of two rectangles
Intersects(g, b) ==
    /\ g.xmin <= b.xmax /\ g.xmax >= b.xmin
    /\ g.ymin <= b.ymax /\ g.ymax >= b.ymin

\* raking_shapes[raking_shapes.intersects(template_bbox)], then the list of
\* (shape, loc_id) in the order of the table
ShapeValues(shapes, box) ==
    SelectSeqBy(shapes, {i \in DOMAIN shapes : Intersects(shapes[i].geometry, box)})

\* Python's int() of the quotient n / d: truncation toward zero
PixelInt(n, d) ==
    LET an == IF n < 0 THEN -n ELSE n
        ad == IF d < 0 THEN -d ELSE d
        q == an \div ad
    IN IF (n < 0) = (d < 0) THEN q ELSE -q

GeometryOf(sv, loc) ==
    LET last == CHOOSE i \in DOMAIN sv :
                    /\ sv[i].location_id = loc
                    /\ \A j \in DOMAIN sv : sv[j].location_id = loc => j <= i
    IN sv[last].geometry

\* the mutant of BuildBoundsMap: the buffered window, not clamped to the tile
BuildBoundsMapUnclamped(sv, w, h) ==
    [loc \in {sv[i].location_id : i \in DOMAIN sv} |->
        LET g == GeometryOf(sv, loc)
        IN [rows |-> <<PixelInt(g.ymax - Transform.f, Transform.e) - pixel_buffer,
                      PixelInt(g.ymin - Transform.f, Transform.e) + pixel_buffer>>,
            cols |-> <<PixelInt(g.xmin - Transform.c, Transform.a) - pixel_buffer,
                      PixelInt(g.xmax - Transform.c, Transform.a) + pixel_buffer>>]]

\* build_bounds_map(raster_template, shape_values): location id -> the
\* slices (rows, cols), each <<start, stop>>
BuildBoundsMap(sv, w, h) ==
    [loc \in {sv[i].location_id : i \in DOMAIN sv} |->
        LET g == GeometryOf(sv, loc)
            pxmin == Max(0, PixelInt(g.xmin - Transform.c, Transform.a) - pixel_buffer)
            pymin == Max(0, PixelInt(g.ymax - Transform.f, Transform.e) - pixel_buffer)
            pxmax == Min(w, PixelInt(g.xmax - Transform.c, Transform.a) + pixel_buffer)
            pymax == Min(h, PixelInt(g.ymin - Transform.f, Transform.e) + pixel_buffer)
        IN [rows |-> <<pymin, pymax>>, cols |-> <<pxmin, pxmax>>]]

\* the centre of pixel (r, c) lies strictly inside g (twice the coordinates,
\* to stay in the integers)
Covers(g, r, c) ==
    LET x2 == 2 * Transform.c + Transform.a * (2 * c + 1)
        y2 == 2 * Transform.f + Transform.e * (2 * r + 1)
    IN /\ 2 * g.xmin < x2 /\ x2 < 2 * g.xmax
       /\ 2 * g.ymin < y2 /\ y2 < 2 * g.ymax

\* the mutant of Rasterize: the first shape that covers the pixel keeps it
RasterizeFirstWins(sv, r, c) ==
    LET hits == {i \in DOMAIN sv : Covers(sv[i].geometry, r, c)}
    IN IF hits = {} THEN 0
       ELSE sv[CHOOSE i \in hits : \A j \in hits : i <= j].location_id

\* rasterize(shape_values, out=zeros, merge_alg=MergeAlg.replace) at pixel
\* (r, c): the id of the last shape that covers it, 0 if none does
Rasterize(sv, r, c) ==
    LET hits == {i \in DOMAIN sv : Covers(sv[i].geometry, r, c)}
    IN IF hits = {} THEN 0
       ELSE sv[CHOOSE i \in hits : \A j \in hits : j <= i].location_id

\* the mutant of LocMask: the pixels of the window that a shape of the
\* location covers, whoever holds them in the grid
LocMaskCovered(sv, win, loc) ==
    {<<r, c>> \in ((win.rows[1])..(win.rows[2] - 1)) \X ((win.cols[1])..(win.cols[2] - 1)) :
        \E i \in DOMAIN sv : sv[i].location_id = loc /\ Covers(sv[i].geometry, r, c)}

\* location_mask[rows, cols] == location_id, as the set of the pixels of the
\* window where it is true
LocMask(sv, win, loc) ==
    {<<r, c>> \in ((win.rows[1])..(win.rows[2] - 1)) \X ((win.cols[1])..(win.cols[2] - 1)) :
        Rasterize(sv, r, c) = loc}

\* final_bounds_map
FinalBoundsMap(sv, w, h) ==
    LET bm == BuildBoundsMap(sv, w, h)
    IN [loc \in DOMAIN bm |->
          [rows |-> bm[loc].rows, cols |-> bm[loc].cols,
           mask |-> LocMask(sv, bm[loc], loc)]]

\* build_location_masks(block_key, hiearchy), the first step of pixel_main:
\* get_bbox raises on a CRS that MAX_BOUNDS does not list and on a bounding
\* box whose area changes in the round trip through the reference CRS.
BuildLocationMasksFor(raster_crs) ==
    /\ ppc = "start"
    /\ \E area_within_tolerance \in BOOLEAN :
          IF raster_crs \notin DOMAIN MAX_BOUNDS
          THEN /\ ppc' = "raised"
               /\ perr' = "Unsupported CRS"
               /\ UNCHANGED <<shape_values, bounds_map, scen_i>>
          ELSE IF ~area_within_tolerance
               THEN /\ ppc' = "raised"
                    /\ perr' = "Area change"
                    /\ UNCHANGED <<shape_values, bounds_map, scen_i>>
               ELSE /\ shape_values' =
                         ShapeValues(raking_shapes, GetBBox(raster_crs, width, height))
                    /\ bounds_map' = FinalBoundsMap(shape_values', width, height)
                    /\ scen_i' = 1
                    /\ ppc' = "scenarios"
                    /\ UNCHANGED perr
    /\ UNCHANGED <<crs, width, height, raking_shapes, pop_raster, climate,
                   available, result_records, rawFile>>
    /\ UNCHANGED <<hvars, wvars, avars, mvars, bvars>>

\* the mutant of BuildLocationMasks: a CRS that is not listed is taken to be
\* the listed one
BuildLocationMasksAssumedCRS == BuildLocationMasksFor("ESRI:54034")

\* template = rt.load_raster(pop_file); get_bbox(template, "EPSG:4326"); ...
BuildLocationMasks == BuildLocationMasksFor(crs)

(***************************************************************************)
(* The population rasters (one a year) and the climate data (one grid a    *)
(* scenario and year, Ratio x Ratio pixels to a cell).  A sample is a      *)
(* float [k, n, d].                                                        *)
(***************************************************************************)
PopRasters == {"ones", "varied", "nan_hole", "sentinel_hole"}

\* pop_raster.no_data_value: NaN, or a finite sentinel
PopNoData(kind) == IF kind = "sentinel_hole" THEN Num(-9999, 1) ELSE NaN

\* pop_raster._ndarray[r, c] of the raster of year y
PopSample(kind, y, r, c) ==
    IF kind \in {"nan_hole", "sentinel_hole"} /\ r = 3 /\ c = 3
    THEN PopNoData(kind)
    ELSE IF kind = "varied" THEN Num(r + c + (y - FirstYear), 1)
    ELSE Num(1, 1)

ClimateData == {"valid", "nan_cell"}

ScenarioIndex(sc) == CHOOSE i \in DOMAIN Scenarios : Scenarios[i] = sc

\* ds.sel(year=y)["value"] at cell (i, j) of the climate grid
ClimateSample(kind, sc, y, i, j) ==
    IF kind = "nan_cell" /\ i = 0 /\ j = 0 THEN NaN
    ELSE Num(ScenarioIndex(sc) + 3 * (y - FirstYear) + 2 * i + j, 1)

\* to_raster(...).resample_to(pop_raster, "nearest") at pixel (r, c): the
\* value of the cell of the climate grid the pixel lies in
ClimArr(kind, sc, y, r, c) == ClimateSample(kind, sc, y, r \div Ratio, c \div Ratio)

\* numpy's product of two floats that are finite or NaN
FloatMul(u, v) ==
    IF u.k = "nan" \/ v.k = "nan" THEN NaN ELSE Num(u.n * v.n, 1)

\* the mutant of WeightedClimArr: the climate without the population
WeightedClimArrNoPop(pk, ck, sc, y, r, c) == ClimArr(ck, sc, y, r, c)

\* weighted_clim_arr[r, c] = pop_arr * clim_arr
WeightedClimArr(pk, ck, sc, y, r, c) ==
    FloatMul(PopSample(pk, y, r, c), ClimArr(ck, sc, y, r, c))

RECURSIVE NanSumPop(_, _, _)
\* np.nansum(pop_arr[rows, cols][loc_mask]): NaN counts as zero
NanSumPop(pk, y, P) ==
    IF P = {} THEN 0
    ELSE LET x == CHOOSE z \in P : TRUE
             v == PopSample(pk, y, x[1], x[2])
         IN (IF v.k = "nan" THEN 0 ELSE v.n) + NanSumPop(pk, y, P \ {x})

RECURSIVE NanSumWeighted(_, _, _, _, _)
\* np.nansum(weighted_clim_arr[rows, cols][loc_mask])
NanSumWeighted(pk, ck, sc, y, P) ==
    IF P = {} THEN 0
    ELSE LET x == CHOOSE z \in P : TRUE
             v == WeightedClimArr(pk, ck, sc, y, x[1], x[2])
         IN (IF v.k = "nan" THEN 0 ELSE v.n) + NanSumWeighted(pk, ck, sc, y, P \ {x})

\* measures = [summary_variable]
Measure == "summary_variable"

PixelRec(l, y, sc, w, p) ==
    [location_id |-> l, year_id |-> y, scenario |-> sc, measure |-> Measure,
     weighted_climate |-> w, population |-> p]

\* the records one scenario appends: for year in years, for location_id in
\* bounds_map (in the order of shape_values)
ScenarioRecords(sc) ==
    LET n == Len(shape_values)
    IN [k \in 1..(NYears * n) |->
          LET y == FirstYear + ((k - 1) \div n)
              loc == shape_values[((k - 1) % n) + 1].location_id
              mask == bounds_map[loc].mask
          IN PixelRec(loc, y, sc,
                      NanSumWeighted(pop_raster, climate, sc, y, mask),
                      NanSumPop(pop_raster, y, mask))]

\* the mutant of AppendScenario: the file is not looked for
AppendScenarioNoSkip(recs, sc) == recs \o ScenarioRecords(sc)

\* the body of the loop: `continue` when (root / f"{model}.nc") does not
\* exist, the records of the scenario otherwise
AppendScenario(recs, sc) ==
    IF sc \in available THEN recs \o ScenarioRecords(sc) ELSE recs

\* One pass of the loop over itertools.product(measures, scenarios): a
\* scenario the model has no file for is skipped.
ProcessScenario ==
    /\ ppc = "scenarios"
    /\ scen_i <= Len(Scenarios)
    /\ result_records' = AppendScenario(result_records, Scenarios[scen_i])
    /\ scen_i' = scen_i + 1
    /\ ppc' = IF scen_i = Len(Scenarios) THEN "save" ELSE "scenarios"
    /\ UNCHANGED <<crs, width, height, raking_shapes, pop_raster, climate,
                   available, perr, shape_values, bounds_map, rawFile>>
    /\ UNCHANGED <<hvars, wvars, avars, mvars, bvars>>

\* a file of the output tree: absent, or its rows and its mode
\* A path of the file system: whether a file is there, the rows written to
\* it, its mode, and whether its writer closed it (a parquet file is
\* readable once its footer is written, at the close).
NoFile == [exists |-> FALSE, rows |-> <<>>, mode |-> "none", closed |-> TRUE]
File(rows, mode) ==
    [exists |-> TRUE, rows |-> rows, mode |-> mode, closed |-> TRUE]
\* the file to_parquet has created at its path and not yet closed
OpenedFile == [exists |-> TRUE, rows |-> <<>>, mode |-> "umask", closed |-> FALSE]

\* the mutant of SortRecords: a sort that is not stable, records with the same
\* (location_id, year_id) come out in the reverse of their order
SortRecordsTiesReversed(recs) ==
    SortValues([i \in 1..Len(recs) |-> recs[Len(recs) + 1 - i]])

\* pd.DataFrame(result_records).sort_values(by=["location_id", "year_id"])
SortRecords(recs) == SortValues(recs)

\* The end of pixel_main: the sorted frame is written and made 0775.
SaveResults ==
    /\ ppc = "save"
    /\ rawFile' = File(SortRecords(result_records), "0775")
    /\ ppc' = "done"
    /\ UNCHANGED <<crs, width, height, raking_shapes, pop_raster, climate,
                   available, perr, shape_values, bounds_map, scen_i,
                   result_records>>
    /\ UNCHANGED <<hvars, wvars, avars, mvars, bvars>>

\* The end of pixel_main step by step, for a run that may be stopped between
\* the steps: results.to_parquet(save_path / filename) creates the file at
\* its final path, ...
OpenResults ==
    /\ ppc = "save"
    /\ rawFile' = OpenedFile
    /\ ppc' = "writing"
    /\ UNCHANGED <<crs, width, height, raking_shapes, pop_raster, climate,
                   available, perr, shape_values, bounds_map, scen_i,
                   result_records>>
    /\ UNCHANGED <<hvars, wvars, avars, mvars, bvars>>

\* ... writes the rows and closes it, ...
WriteResults ==
    /\ ppc = "writing"
    /\ rawFile' = File(SortRecords(result_records), "umask")
    /\ ppc' = "written"
    /\ UNCHANGED <<crs, width, height, raking_shapes, pop_raster, climate,
                   available, perr, shape_values, bounds_map, scen_i,
                   result_records>>
    /\ UNCHANGED <<hvars, wvars, avars, mvars, bvars>>

\* ... and final_path.chmod(0o775).
ChmodResults ==
    /\ ppc = "written"
    /\ rawFile' = [rawFile EXCEPT !.mode = "0775"]
    /\ ppc' = "done"
    /\ UNCHANGED <<crs, width, height, raking_shapes, pop_raster, climate,
                   available, perr, shape_values, bounds_map, scen_i,
                   result_records>>
    /\ UNCHANGED <<hvars, wvars, avars, mvars, bvars>>

\* The process of pixel_main is stopped from outside (the scheduler's
\* runtime limit, a signal): nothing in pixel_main handles it.
KillPixel ==
    /\ ppc \in {"scenarios", "save", "writing", "written"}
    /\ ppc' = "killed"
    /\ UNCHANGED <<crs, width, height, raking_shapes, pop_raster, climate,
                   available, perr, shape_values, bounds_map, scen_i,
                   result_records, rawFile>>
    /\ UNCHANGED <<hvars, wvars, avars, mvars, bvars>>

(***************************************************************************)
(* aggregate_climate_to_hierarchy(data, hierarchy).  A record of the       *)
(* working set is [location_id, year_id, weighted_climate, population]; the *)
(* working set is a sequence, as a DataFrame may hold a key twice.         *)
(***************************************************************************)
Rec(l, y, w, p) ==
    [location_id |-> l, year_id |-> y, weighted_climate |-> w, population |-> p]

\* results.index: the location ids of the working set
Index(res) == {res[i].location_id : i \in DOMAIN res}

\* hierarchy.loc[hierarchy.level == level]: the rows of one level
ParentMap(lvl) == {h \in HierarchyTable : h.level = lvl}

\* parent_map.index.difference(results.index)
AbsentParentMap(res, lvl) ==
    {h.location_id : h \in ParentMap(lvl)} \ Index(res)

\* the mutant of MissingParents: the first message's ids, the absent locations
MissingParentsNamesAbsent(res, lvl) ==
    IF \E h \in ParentMap(lvl) : /\ h.location_id \in AbsentParentMap(res, lvl)
                                  /\ h.parent_id \notin Index(res)
    THEN AbsentParentMap(res, lvl)
    ELSE {}

\* the mutant of MissingParents: the parents of the absent locations, whether
\* they are in the working set or not
MissingParentsAll(res, lvl) ==
    {h.parent_id : h \in {g \in ParentMap(lvl) :
                              g.location_id \in AbsentParentMap(res, lvl)}}

\* unique_parent_ids[~np.isin(unique_parent_ids, results.index)]
MissingParents(res, lvl) ==
    {h.parent_id : h \in {g \in ParentMap(lvl) :
                              g.location_id \in AbsentParentMap(res, lvl)}}
        \ Index(res)

\* parent_map.loc[parent_map.index.isin(results.index)]
PresentParentMap(res, lvl) ==
    {h \in ParentMap(lvl) : h.location_id \in Index(res)}

ParentAt(lvl, loc) ==
    (CHOOSE h \in ParentMap(lvl) : h.location_id = loc).parent_id

\* results.loc[present_parent_map.index]: the positions of the subset
SubsetRows(res, lvl) ==
    {i \in DOMAIN res :
        res[i].location_id \in {h.location_id : h \in PresentParentMap(res, lvl)}}

RECURSIVE SeqByYearLoc(_)
\* the records of S in groupby's order, ascending (year_id, parent_id)
SeqByYearLoc(S) ==
    IF S = {} THEN <<>>
    ELSE LET m == CHOOSE x \in S : \A y \in S \ {x} : YearLocLess(x, y)
         IN <<m>> \o SeqByYearLoc(S \ {m})

\* the mutant of ParentValues: .first() in place of .sum()
ParentValuesFirst(res, lvl) ==
    LET rows == SubsetRows(res, lvl)
        keys == {<<res[i].year_id, ParentAt(lvl, res[i].location_id)>> : i \in rows}
        group(k) == {i \in rows : /\ res[i].year_id = k[1]
                                   /\ ParentAt(lvl, res[i].location_id) = k[2]}
        first(k) == CHOOSE i \in group(k) : \A j \in group(k) : i <= j
    IN SeqByYearLoc({Rec(k[2], k[1], res[first(k)].weighted_climate,
                         res[first(k)].population) : k \in keys})

\* subset.groupby(["year_id", "parent_id"])[["weighted_climate",
\* "population"]].sum(), the parent renamed to location_id
ParentValues(res, lvl) ==
    LET rows == SubsetRows(res, lvl)
        keys == {<<res[i].year_id, ParentAt(lvl, res[i].location_id)>> : i \in rows}
        group(k) == {i \in rows : /\ res[i].year_id = k[1]
                                   /\ ParentAt(lvl, res[i].location_id) = k[2]}
    IN SeqByYearLoc({Rec(k[2], k[1], SumWeighted(res, group(k)),
                         SumPopulation(res, group(k))) : k \in keys})

NoError == [type |-> "none", ids |-> {}]

\* the mutant of RollupLevel: the records of the level are replaced by the
\* sums of their parents
RollupLevelConsuming ==
    /\ hpc = "rollup"
    /\ level >= 1
    /\ IF MissingParents(results, level) # {}
       THEN /\ hpc' = "raised"
            /\ herr' = [type |-> "ValueError",
                        ids |-> MissingParents(results, level)]
            /\ UNCHANGED <<results, level>>
       ELSE /\ results' = SelectSeqBy(results, DOMAIN results \ SubsetRows(results, level))
                             \o ParentValues(results, level)
            /\ level' = level - 1
            /\ UNCHANGED <<hpc, herr>>
    /\ UNCHANGED <<scenario, draw_df, combined, pop_df, view_i, outFiles>>
    /\ UNCHANGED <<pvars, wvars, avars, mvars, bvars>>

\* One pass of the loop over the levels, from hierarchy.level.max() down to 1.
RollupLevel ==
    /\ hpc = "rollup"
    /\ level >= 1
    /\ IF MissingParents(results, level) # {}
       THEN /\ hpc' = "raised"
            /\ herr' = [type |-> "ValueError",
                        ids |-> MissingParents(results, level)]
            /\ UNCHANGED <<results, level>>
       ELSE /\ results' = results \o ParentValues(results, level)
            /\ level' = level - 1
            /\ UNCHANGED <<hpc, herr>>
    /\ UNCHANGED <<scenario, draw_df, combined, pop_df, view_i, outFiles>>
    /\ UNCHANGED <<pvars, wvars, avars, mvars, bvars>>

\* After the loop: results.reset_index().sort_values(...), and the return.
RollupReturn ==
    /\ hpc = "rollup"
    /\ level = 0
    /\ results' = SortValues(results)
    /\ hpc' = "rolled"
    /\ UNCHANGED <<scenario, draw_df, level, herr, combined, pop_df, view_i,
                   outFiles>>
    /\ UNCHANGED <<pvars, wvars, avars, mvars, bvars>>

(***************************************************************************)
(* hierarchy_main(hierarchy, scenario, model, variant), after the block    *)
(* files are read: the roll-up, the per-capita value, the subset views.    *)
(***************************************************************************)
HIERARCHY_MAP ==
    [gbd_2021 |-> <<"gbd_2021", "fhs_2021">>, lsae_1209 |-> <<"lsae_1209">>]

\* the --hierarchy, --model and --variant arguments
HierarchyArg == "gbd_2021"
ModelArg == "ACCESS-CM2"
VariantArg == "r1i1p1f1"

\* load_subset_hierarchy(name)["location_id"].tolist(): the subset gbd_2021
\* is read from the file the aggregation hierarchy is read from
SubsetLocationIds(name) ==
    IF name = "fhs_2021" THEN {0, 1, 10, 20} ELSE HierarchyLocations

ViewPaths ==
    {<<HIERARCHY_MAP[HierarchyArg][i], f>> :
        i \in DOMAIN HIERARCHY_MAP[HierarchyArg], f \in {"result", "population"}}

\* agg_df.weighted_climate / agg_df.population
PerCapitaValue(w, p) == Div(w, p)

\* the mutant of CombinedResults: a record of a location with records of
\* children in the year takes the ratio of the first of them
CombinedResultsChildRatio(res) ==
    [i \in DOMAIN res |->
        LET kids == {j \in DOMAIN res :
                        /\ res[j].year_id = res[i].year_id
                        /\ \E h \in HierarchyTable :
                              /\ h.location_id = res[j].location_id
                              /\ h.parent_id = res[i].location_id
                              /\ h.location_id # h.parent_id}
            k == IF kids = {} THEN i
                 ELSE CHOOSE j \in kids : \A j2 \in kids : j <= j2
        IN [location_id |-> res[i].location_id, year_id |-> res[i].year_id,
            value |-> PerCapitaValue(res[k].weighted_climate, res[k].population)]]

\* agg_df[["location_id", "year_id", "value"]], the value named by the draw
CombinedResults(res) ==
    [i \in DOMAIN res |->
        [location_id |-> res[i].location_id, year_id |-> res[i].year_id,
         value |-> PerCapitaValue(res[i].weighted_climate, res[i].population)]]

\* agg_df[["location_id", "year_id", "population"]]
PopDf(res) ==
    [i \in DOMAIN res |->
        [location_id |-> res[i].location_id, year_id |-> res[i].year_id,
         population |-> res[i].population]]

\* The end of the loop over the draws (there is one draw, "000").
PerCapita ==
    /\ hpc = "rolled"
    /\ pop_df' = PopDf(results)
    /\ combined' = CombinedResults(results)
    /\ view_i' = 1
    /\ hpc' = "views"
    /\ UNCHANGED <<scenario, draw_df, results, level, herr, outFiles>>
    /\ UNCHANGED <<pvars, wvars, avars, mvars, bvars>>

\* the mutant of FilterLocations: no filter
FilterLocationsAll(df, ids) == df

\* combined_results[combined_results["location_id"].isin(subset_location_ids)]
FilterLocations(df, ids) ==
    SelectSeqBy(df, {i \in DOMAIN df : df[i].location_id \in ids})

RECURSIVE MergeLeft(_, _)
\* df.merge(pop_df, on=["location_id", "year_id"], how="left"): every row of
\* df once for each row of pop_df with its key
MergeLeft(df, pop) ==
    IF df = <<>> THEN <<>>
    ELSE LET n == Len(df)
             x == df[n]
             hits == SelectSeqBy(pop, {j \in DOMAIN pop :
                                        /\ pop[j].location_id = x.location_id
                                        /\ pop[j].year_id = x.year_id})
         IN MergeLeft(SubSeq(df, 1, n - 1), pop)
            \o [j \in DOMAIN hits |->
                  [location_id |-> x.location_id, year_id |-> x.year_id,
                   model |-> ModelArg, scenario |-> scenario,
                   variant |-> VariantArg,
                   people_flood_days_per_capita |-> x.value,
                   population |-> hits[j].population,
                   people_flood_days |-> Times(x.value, hits[j].population)]]

\* post_process(subset_results, pop_df) of the rows tagged with model,
\* scenario and variant
PostProcess(df, pop) == MergeLeft(df, pop)

\* the mutant of ProjectView: the roll-up of the deepest level is run again on
\* the working set before every view
ProjectViewRerolls ==
    /\ hpc = "views"
    /\ view_i <= Len(HIERARCHY_MAP[HierarchyArg])
    /\ LET name == HIERARCHY_MAP[HierarchyArg][view_i]
           ids == SubsetLocationIds(name)
           rerolled == SortValues(results \o ParentValues(results, MaxLevel))
           full_df == PostProcess(FilterLocations(CombinedResults(rerolled), ids),
                                  PopDf(rerolled))
       IN /\ results' = rerolled
          /\ outFiles' = [outFiles EXCEPT ![<<name, "result">>] = File(full_df, "0775")]
          /\ view_i' = view_i + 1
          /\ hpc' = IF view_i = Len(HIERARCHY_MAP[HierarchyArg])
                    THEN "done" ELSE "views"
    /\ UNCHANGED <<scenario, draw_df, level, herr, combined, pop_df>>
    /\ UNCHANGED <<pvars, wvars, avars, mvars, bvars>>

\* the mutant of ProjectView: the series are filtered in place, so that the
\* next view is projected from what the last one kept
ProjectViewInPlace ==
    /\ hpc = "views"
    /\ view_i <= Len(HIERARCHY_MAP[HierarchyArg])
    /\ LET name == HIERARCHY_MAP[HierarchyArg][view_i]
           ids == SubsetLocationIds(name)
           subset_results == FilterLocations(combined, ids)
           full_df == PostProcess(subset_results, pop_df)
       IN /\ combined' = subset_results
          /\ pop_df' = FilterLocations(pop_df, ids)
          /\ outFiles' = [outFiles EXCEPT ![<<name, "result">>] = File(full_df, "0775")]
          /\ view_i' = view_i + 1
          /\ hpc' = IF view_i = Len(HIERARCHY_MAP[HierarchyArg])
                    THEN "done" ELSE "views"
    /\ UNCHANGED <<scenario, draw_df, results, level, herr>>
    /\ UNCHANGED <<pvars, wvars, avars, mvars, bvars>>

\* One pass of the loop over HIERARCHY_MAP[hierarchy]: filter, post_process
\* (whose assertion on the row count may fail), to_parquet, chmod, and the
\* population file when the scenario is ssp245.
ProjectView ==
    /\ hpc = "views"
    /\ view_i <= Len(HIERARCHY_MAP[HierarchyArg])
    /\ LET name == HIERARCHY_MAP[HierarchyArg][view_i]
           ids == SubsetLocationIds(name)
           subset_results == FilterLocations(combined, ids)
           full_df == PostProcess(subset_results, pop_df)
           subset_pop == FilterLocations(pop_df, ids)
       IN IF Len(full_df) # Len(subset_results)
          THEN /\ hpc' = "raised"
               /\ herr' = [type |-> "AssertionError", ids |-> {}]
               /\ UNCHANGED <<view_i, outFiles>>
          ELSE /\ outFiles' =
                    [q \in ViewPaths |->
                        IF q = <<name, "result">> THEN File(full_df, "0775")
                        ELSE IF q = <<name, "population">> /\ scenario = "ssp245"
                             THEN File(subset_pop, "umask")
                             ELSE outFiles[q]]
               /\ view_i' = view_i + 1
               /\ hpc' = IF view_i = Len(HIERARCHY_MAP[HierarchyArg])
                         THEN "done" ELSE "views"
               /\ UNCHANGED herr
    /\ UNCHANGED <<scenario, draw_df, results, level, combined, pop_df>>
    /\ UNCHANGED <<pvars, wvars, avars, mvars, bvars>>

\* what a pass of the loop over the views leads to: the next pass or the end
AfterView == IF view_i = Len(HIERARCHY_MAP[HierarchyArg]) THEN "done" ELSE "views"

\* A pass of the loop over the views step by step, for a run that may be
\* stopped between the steps: filter, post_process, and to_parquet creates
\* the result file at its final path, ...
OpenView ==
    /\ hpc = "views"
    /\ view_i <= Len(HIERARCHY_MAP[HierarchyArg])
    /\ LET name == HIERARCHY_MAP[HierarchyArg][view_i]
           subset_results == FilterLocations(combined, SubsetLocationIds(name))
           full_df == PostProcess(subset_results, pop_df)
       IN IF Len(full_df) # Len(subset_results)
          THEN /\ hpc' = "raised"
               /\ herr' = [type |-> "AssertionError", ids |-> {}]
               /\ UNCHANGED outFiles
          ELSE /\ outFiles' = [outFiles EXCEPT ![<<name, "result">>] = OpenedFile]
               /\ hpc' = "view_open"
               /\ UNCHANGED herr
    /\ UNCHANGED <<scenario, draw_df, results, level, combined, pop_df, view_i>>
    /\ UNCHANGED <<pvars, wvars, avars, mvars, bvars>>

\* ... writes the rows and closes it, ...
WriteView ==
    /\ hpc = "view_open"
    /\ LET name == HIERARCHY_MAP[HierarchyArg][view_i]
           full_df == PostProcess(FilterLocations(combined, SubsetLocationIds(name)),
                                  pop_df)
       IN outFiles' = [outFiles EXCEPT ![<<name, "result">>] = File(full_df, "umask")]
    /\ hpc' = "view_written"
    /\ UNCHANGED <<scenario, draw_df, results, level, herr, combined, pop_df,
                   view_i>>
    /\ UNCHANGED <<pvars, wvars, avars, mvars, bvars>>

\* ... final_path.chmod(0o775), and save_population is evaluated.
ChmodView ==
    /\ hpc = "view_written"
    /\ LET name == HIERARCHY_MAP[HierarchyArg][view_i]
       IN outFiles' = [outFiles EXCEPT ![<<name, "result">>].mode = "0775"]
    /\ IF scenario = "ssp245"
       THEN hpc' = "population" /\ UNCHANGED view_i
       ELSE hpc' = AfterView /\ view_i' = view_i + 1
    /\ UNCHANGED <<scenario, draw_df, results, level, herr, combined, pop_df>>
    /\ UNCHANGED <<pvars, wvars, avars, mvars, bvars>>

\* subset_pop.to_parquet(subset_results_path / popname) creates the file ...
OpenPopulation ==
    /\ hpc = "population"
    /\ LET name == HIERARCHY_MAP[HierarchyArg][view_i]
       IN outFiles' = [outFiles EXCEPT ![<<name, "population">>] = OpenedFile]
    /\ hpc' = "population_open"
    /\ UNCHANGED <<scenario, draw_df, results, level, herr, combined, pop_df,
                   view_i>>
    /\ UNCHANGED <<pvars, wvars, avars, mvars, bvars>>

\* ... writes the rows and closes it; its chmod is commented out.
WritePopulation ==
    /\ hpc = "population_open"
    /\ LET name == HIERARCHY_MAP[HierarchyArg][view_i]
           subset_pop == FilterLocations(pop_df, SubsetLocationIds(name))
       IN outFiles' = [outFiles EXCEPT ![<<name, "population">>] =
                                          File(subset_pop, "umask")]
    /\ hpc' = AfterView
    /\ view_i' = view_i + 1
    /\ UNCHANGED <<scenario, draw_df, results, level, herr, combined, pop_df>>
    /\ UNCHANGED <<pvars, wvars, avars, mvars, bvars>>

\* The process of hierarchy_main is stopped from outside.
KillHierarchy ==
    /\ hpc \in {"rollup", "rolled", "views", "view_open", "view_written",
                 "population", "population_open"}
    /\ hpc' = "killed"
    /\ UNCHANGED <<scenario, draw_df, results, level, herr, combined, pop_df,
                   view_i, outFiles>>
    /\ UNCHANGED <<pvars, wvars, avars, mvars, bvars>>

(***************************************************************************)
(* The most-detailed input of the roll-up: every location of the hierarchy *)
(* but the root is absent or has one of a few series over the years.       *)
(***************************************************************************)
Profiles == {"absent", "zero", "flat", "rise", "first"}

\* the records of location l under profile f
ProfileRecords(l, f) ==
    IF f = "zero" THEN {Rec(l, y, 0, 0) : y \in Years}
    ELSE IF f = "flat" THEN {Rec(l, y, 8, 4) : y \in Years}
    ELSE IF f = "rise" THEN {Rec(l, y, 4 * (y - FirstYear + 1), 4) : y \in Years}
    ELSE IF f = "first" THEN {Rec(l, FirstYear, 2, 1)}
    ELSE {}

RECURSIVE SeqByLocYear(_)
\* the records of S ascending by (location_id, year_id), as groupby leaves them
SeqByLocYear(S) ==
    IF S = {} THEN <<>>
    ELSE LET m == CHOOSE x \in S : \A y \in S \ {x} : LocYearLess(x, y)
         IN <<m>> \o SeqByLocYear(S \ {m})

DetailedLocations == {h.location_id : h \in {g \in HierarchyTable : g.level >= 1}}

DetailedInputs ==
    {SeqByLocYear(UNION {ProfileRecords(l, f[l]) : l \in DetailedLocations}) :
        f \in [DetailedLocations -> Profiles]}

\* the mutant of DrawDf: the rows are not filtered by scenario
DrawDfAllScenarios(rows, sc) ==
    LET I == DOMAIN rows
        keys == {<<rows[i].location_id, rows[i].year_id>> : i \in I}
        group(k) == {i \in I : rows[i].location_id = k[1] /\ rows[i].year_id = k[2]}
    IN SeqByLocYear({Rec(k[1], k[2], SumWeighted(rows, group(k)),
                         SumPopulation(rows, group(k))) : k \in keys})

\* pd.concat(draw_results).groupby(["location_id", "year_id"]).sum() of the
\* rows of the block files whose scenario is sc, scenario and measure dropped
DrawDf(rows, sc) ==
    LET I == {i \in DOMAIN rows : rows[i].scenario = sc}
        keys == {<<rows[i].location_id, rows[i].year_id>> : i \in I}
        group(k) == {i \in I : rows[i].location_id = k[1] /\ rows[i].year_id = k[2]}
    IN SeqByLocYear({Rec(k[1], k[2], SumWeighted(rows, group(k)),
                         SumPopulation(rows, group(k))) : k \in keys})

\* the files of the block keys of the modeling frame, in its order
BlockFiles == <<rawFile>> \o block_files

\* the mutant of FirstUnreadable: a file that is not there is passed over
FirstUnreadableButAbsent(files) ==
    LET bad == {i \in DOMAIN files : files[i].exists /\ ~files[i].closed}
    IN IF bad = {} THEN 0 ELSE CHOOSE i \in bad : \A j \in bad : i <= j

\* the first file of the loop over block_keys that pd.read_parquet cannot
\* read, 0 if it reads them all
FirstUnreadable(files) ==
    LET bad == {i \in DOMAIN files : ~files[i].exists \/ ~files[i].closed}
    IN IF bad = {} THEN 0 ELSE CHOOSE i \in bad : \A j \in bad : i <= j

RECURSIVE ConcatRows(_)
\* pd.concat(draw_results, ignore_index=True) before the filter
ConcatRows(files) ==
    IF files = <<>> THEN <<>> ELSE files[1].rows \o ConcatRows(Tail(files))

\* The start of hierarchy_main(hierarchy, sc, model, variant): the block
\* files are read (read_parquet raises when the file is not there), summed
\* per location and year, and handed to aggregate_climate_to_hierarchy, whose
\* working set starts as data.set_index("location_id").copy().
ReadBlocks ==
    /\ hpc = "idle"
    /\ \E sc \in Range(Scenarios) :
          /\ scenario' = sc
          /\ IF FirstUnreadable(BlockFiles) # 0
                /\ ~BlockFiles[FirstUnreadable(BlockFiles)].exists
             THEN /\ hpc' = "raised"
                  /\ herr' = [type |-> "FileNotFoundError", ids |-> {}]
                  /\ UNCHANGED <<draw_df, results, level>>
             ELSE IF FirstUnreadable(BlockFiles) # 0
             THEN /\ hpc' = "raised"
                  /\ herr' = [type |-> "ArrowInvalid", ids |-> {}]
                  /\ UNCHANGED <<draw_df, results, level>>
             ELSE /\ draw_df' = DrawDf(ConcatRows(BlockFiles), sc)
                  /\ results' = draw_df'
                  /\ level' = MaxLevel
                  /\ hpc' = "rollup"
                  /\ UNCHANGED herr
    /\ UNCHANGED <<combined, pop_df, view_i, outFiles>>
    /\ UNCHANGED <<pvars, wvars, avars, mvars, bvars>>

(***************************************************************************)
(* The inputs of pixel_main: the shapes of the hierarchy near the block.   *)
(***************************************************************************)
\* the rectangle of the pixels of rows r0..r1-1 and columns c0..c1-1
PixelRect(r0, c0, r1, c1) ==
    Rect(Transform.c + Transform.a * c0, Transform.f + Transform.e * r1,
         Transform.c + Transform.a * c1, Transform.f + Transform.e * r0)

TopLeft == PixelRect(0, 0, 2, 2)
BottomRight == PixelRect(2, 2, 4, 4)
BottomLeft == PixelRect(2, 0, 4, 2)
Centre == PixelRect(1, 1, 3, 3)
\* a shape in the corner of pixel (0, 0) that holds no pixel centre
Sliver == Rect(Transform.c, Transform.f - 1, Transform.c + 1, Transform.f)
\* a shape far from the block
Outside == PixelRect(0, 100, 2, 102)

Shape(g, loc) == [geometry |-> g, location_id |-> loc]

\* what the shapes table may hold for each location id
ShapeChoices ==
    [l \in {10, 20, 2} |->
        IF l = 10 THEN {<<>>, <<Shape(TopLeft, 10)>>, <<Shape(Sliver, 10)>>}
        ELSE IF l = 20 THEN {<<>>, <<Shape(BottomRight, 20)>>, <<Shape(Centre, 20)>>}
        ELSE {<<>>, <<Shape(BottomLeft, 2)>>, <<Shape(Outside, 2)>>}]

\* the tables: one shape at most for each id, in either order of the ids
RakingShapes ==
    UNION {{a \o b \o c, c \o b \o a} :
              a \in ShapeChoices[10], b \in ShapeChoices[20], c \in ShapeChoices[2]}

PixelNotStarted ==
    /\ ppc = "start"
    /\ perr = "none"
    /\ shape_values = <<>>
    /\ bounds_map = <<>>
    /\ scen_i = 0
    /\ result_records = <<>>
    /\ rawFile = NoFile

\* pixel_main(block_key, hiearchy, model) about to run on a block of
\* TileW x TileH pixels
InitPixel ==
    /\ crs \in {"ESRI:54034", "EPSG:4326"}
    /\ width = TileW
    /\ height = TileH
    /\ raking_shapes \in RakingShapes
    /\ pop_raster \in PopRasters
    /\ climate \in ClimateData
    /\ available \in SUBSET Range(Scenarios)
    /\ PixelNotStarted

\* no pixel_main in the picture
PixelAbsent ==
    /\ crs = "ESRI:54034"
    /\ width = TileW
    /\ height = TileH
    /\ raking_shapes = <<>>
    /\ pop_raster = "ones"
    /\ climate = "valid"
    /\ available = {}
    /\ PixelNotStarted

(***************************************************************************)
(* cama/adjust_daily_netcdf.py: standardize_flooding_fraction on the daily *)
(* values of one pixel (the pixels are treated one by one).  The daily     *)
(* values are multiples of 4 and the percentile is a number of quarters,   *)
(* which keeps the interpolated percentile in the integers.                *)
(***************************************************************************)
\* variable_da[variable_da < 0] = np.nan
NegativeToNaN(v) == IF v.k = "num" /\ v.n < 0 THEN NaN ELSE v

\* pixel_values[~np.isnan(pixel_values)], as the sequence of the numerators
ValidValues(pixel_values) ==
    LET I == {i \in DOMAIN pixel_values : pixel_values[i].k # "nan"}
        kept == SelectSeqBy(pixel_values, I)
    IN [i \in DOMAIN kept |-> kept[i].n]

RECURSIVE SortAscending(_)
\* the values in ascending order
SortAscending(a) ==
    IF a = <<>> THEN <<>>
    ELSE LET i == CHOOSE j \in DOMAIN a : \A j2 \in DOMAIN a : a[j] <= a[j2]
         IN <<a[i]>> \o SortAscending(SelectSeqBy(a, DOMAIN a \ {i}))

\* np.percentile(valid_values, shift * 100), shift = quarters / 4: linear
\* interpolation between the two order statistics around shift * (n - 1)
Percentile(valid_values, quarters) ==
    LET sorted == SortAscending(valid_values)
        n == Len(sorted)
        pos == quarters * (n - 1)
        lo == (pos \div 4) + 1
        hi == Min(lo + 1, n)
    IN sorted[lo] + ((pos % 4) * (sorted[hi] - sorted[lo])) \div 4

\* np.min(valid_values)
NpMin(valid_values) ==
    CHOOSE m \in Range(valid_values) : \A x \in Range(valid_values) : m <= x

\* shift_value for the shift type of the entry
ShiftValue(valid_values, adj) ==
    IF adj.shift_type = "percentile" THEN Percentile(valid_values, adj.shift)
    ELSE NpMin(valid_values)

\* the mutant of ClampNegative: the shifted value is kept as it is
ShiftedUnclamped(v) == v

\* shifted_values[shifted_values < 0] = 0 on one value
ClampNegative(v) == IF v.k = "num" /\ v.n < 0 THEN Num(0, 1) ELSE v

\* pixel_values - shift_value on one value
Shifted(v, shift_value) == IF v.k = "nan" THEN NaN ELSE Num(v.n - shift_value, 1)

\* the loop body for one pixel: variable_da_adjusted[:, y, x]
AdjustPixel(pixel_values, adj) ==
    LET valid_values == ValidValues(pixel_values)
    IN IF Len(valid_values) > 0
       THEN [i \in DOMAIN pixel_values |->
                ClampNegative(Shifted(pixel_values[i], ShiftValue(valid_values, adj)))]
       ELSE pixel_values

\* the entries the configuration may hold: percentile shifts are quarters
Adjustments ==
    {[type |-> "unadjusted", shift_type |-> "none", shift |-> 0],
     [type |-> "shifted", shift_type |-> "min", shift |-> 0]}
    \cup {[type |-> "shifted", shift_type |-> "percentile", shift |-> q] : q \in 1..3}

DayValues == {NaN, Num(-4, 1), Num(0, 1), Num(4, 1), Num(8, 1)}

DailySeries == UNION {[1..n -> DayValues] : n \in 1..MaxDays}

\* standardize_flooding_fraction(model, scenario, variant, year, variable,
\* adjustment_num, model_root).  The unadjusted file is saved from the
\* dataset whose values were edited through a view or through a copy.
StandardizeFloodingFraction ==
    /\ apc = "start"
    /\ IF ~input_exists
       THEN /\ apc' = "skipped"
            /\ UNCHANGED adjusted
       ELSE LET variable_da == [i \in DOMAIN daily |-> NegativeToNaN(daily[i])]
            IN /\ apc' = "saved"
               /\ IF adjustment.type = "unadjusted"
                  THEN adjusted' \in {variable_da, daily}
                  ELSE adjusted' = AdjustPixel(variable_da, adjustment)
    /\ UNCHANGED <<input_exists, adjustment, daily>>
    /\ UNCHANGED <<pvars, hvars, wvars, mvars, bvars>>

\* no standardize_flooding_fraction in the picture
AdjustAbsent ==
    /\ input_exists = FALSE
    /\ adjustment = [type |-> "unadjusted", shift_type |-> "none", shift |-> 0]
    /\ daily = <<>>
    /\ adjusted = <<>>
    /\ apc = "idle"

\* the models of create_mean_results, cut to three
MeanModels == <<"ACCESS-CM2", "EC-Earth3", "INM-CM5-0">>

\* no pixel_mean_generation.py in the picture
MeanAbsent ==
    /\ m_entry = [adjustment |-> [type |-> "unadjusted", shift_type |-> "none",
                                  shift |-> "none"],
                  summary_statistic |-> [type |-> "sum"]]
    /\ produced = [mo \in Range(MeanModels) |-> NoFile]
    /\ meanFile = NoFile
    /\ mpc = "idle"
    /\ merr = "none"

\* neither launcher script was run, and nothing else runs
NothingSubmitted ==
    /\ submitted = {}
    /\ running = {}
    /\ finished = {}
    /\ AdjustAbsent
    /\ MeanAbsent
    /\ block_files = <<>>

HierarchyNotStarted ==
    /\ scenario = "none"
    /\ draw_df = <<>>
    /\ results = <<>>
    /\ level = 0
    /\ hpc = "idle"
    /\ herr = NoError
    /\ combined = <<>>
    /\ pop_df = <<>>
    /\ view_i = 0
    /\ outFiles = [q \in ViewPaths |-> NoFile]

\* hierarchy_main at the call of aggregate_climate_to_hierarchy(draw_df,
\* hierarchy_df); results = data.set_index("location_id").copy()
InitRollup ==
    /\ PixelAbsent
    /\ NothingSubmitted
    /\ scenario \in Range(Scenarios)
    /\ draw_df \in DetailedInputs
    /\ results = draw_df
    /\ level = MaxLevel
    /\ hpc = "rollup"
    /\ herr = NoError
    /\ combined = <<>>
    /\ pop_df = <<>>
    /\ view_i = 0
    /\ outFiles = [q \in ViewPaths |-> NoFile]

NextRollup == RollupLevel \/ RollupReturn \/ PerCapita \/ ProjectView

\* the roll-up and the views, on every most-detailed input
SpecRollup == InitRollup /\ [][NextRollup]_vars

InitPixelOnly == InitPixel /\ HierarchyNotStarted /\ NothingSubmitted

NextPixel == BuildLocationMasks \/ ProcessScenario \/ SaveResults

\* pixel_main on one block
SpecPixel == InitPixelOnly /\ [][NextPixel]_vars

\* the edges a shape may have along an axis of a raster of n pixels that
\* starts at o and grows by step a pixel: around both ends of the raster,
\* within and beyond the buffer
EdgeChoices(o, step, n) ==
    LET lo == Min(o, o + step * n)
        hi == Max(o, o + step * n)
    IN {lo - 11 * Res - 1, lo - 1, lo, lo + 12 * Res + 1,
        hi - 12 * Res - 1, hi, hi + 1, hi + 11 * Res + 1}

BoundsShapes(w, h) ==
    {Rect(x1, y1, x2, y2) :
        x1 \in EdgeChoices(Transform.c, Transform.a, w),
        x2 \in EdgeChoices(Transform.c, Transform.a, w),
        y1 \in EdgeChoices(Transform.f, Transform.e, h),
        y2 \in EdgeChoices(Transform.f, Transform.e, h)}

\* build_location_masks on a block of n x n pixels, n the small or the big
\* tile, and one shape with any of the edges above
InitBounds ==
    /\ crs = "ESRI:54034"
    /\ width \in {TileW, BigTile}
    /\ height = width
    /\ raking_shapes \in
          {<<Shape(g, 10)>> : g \in {b \in BoundsShapes(width, height) :
                                        b.xmin < b.xmax /\ b.ymin < b.ymax}}
    /\ pop_raster = "ones"
    /\ climate = "valid"
    /\ available = {}
    /\ PixelNotStarted
    /\ HierarchyNotStarted
    /\ NothingSubmitted

NextBounds == BuildLocationMasks

\* what the file of a block may be: not there, or the records of the
\* locations of the block for some scenarios
BlockKinds == {"absent", "west", "east", "empty"}

BlockFile(kind) ==
    IF kind = "absent" THEN NoFile
    ELSE IF kind = "west"
    THEN File(<<PixelRec(10, FirstYear, "ssp126", 8, 4),
                PixelRec(10, FirstYear, "ssp245", 4, 4),
                PixelRec(20, FirstYear, "ssp245", 2, 1)>>, "0775")
    ELSE IF kind = "east"
    THEN File(<<PixelRec(10, FirstYear, "ssp245", 2, 2),
                PixelRec(99, FirstYear, "ssp245", 6, 3),
                PixelRec(99, FirstYear, "ssp585", 1, 1)>>, "0775")
    ELSE File(<<>>, "0775")

\* hierarchy_main about to run on a modeling frame of NBlocks blocks, the
\* runs of pixel_main over
InitBlocks ==
    /\ crs = "ESRI:54034"
    /\ width = TileW
    /\ height = TileH
    /\ raking_shapes = <<>>
    /\ pop_raster = "ones"
    /\ climate = "valid"
    /\ available = {}
    /\ ppc = "done"
    /\ perr = "none"
    /\ shape_values = <<>>
    /\ bounds_map = <<>>
    /\ scen_i = 0
    /\ result_records = <<>>
    /\ \E k \in BlockKinds : rawFile = BlockFile(k)
    /\ block_files \in {[i \in 1..(NBlocks - 1) |-> BlockFile(f[i])] :
                           f \in [1..(NBlocks - 1) -> BlockKinds]}
    /\ HierarchyNotStarted
    /\ submitted = {} /\ running = {} /\ finished = {}
    /\ AdjustAbsent
    /\ MeanAbsent

NextBlocks == ReadBlocks \/ NextRollup

\* hierarchy_main over the files of several blocks
SpecBlocks == InitBlocks /\ [][NextBlocks]_vars

\* standardize_flooding_fraction about to run on one pixel
InitAdjust ==
    /\ PixelAbsent
    /\ HierarchyNotStarted
    /\ submitted = {} /\ running = {} /\ finished = {}
    /\ MeanAbsent
    /\ block_files = <<>>
    /\ input_exists \in BOOLEAN
    /\ adjustment \in Adjustments
    /\ daily \in DailySeries
    /\ adjusted = <<>>
    /\ apc = "start"

NextAdjust == StandardizeFloodingFraction

SpecAdjust == InitAdjust /\ [][NextAdjust]_vars

SpecBounds == InitBounds /\ [][NextBounds]_vars

Init == InitPixel /\ HierarchyNotStarted /\ NothingSubmitted

Next == NextPixel \/ ReadBlocks \/ NextRollup

\* pixel_main on one block and hierarchy_main on its file, in any order
Spec == Init /\ [][Next]_vars

NextInterrupted ==
    \/ BuildLocationMasks \/ ProcessScenario
    \/ OpenResults \/ WriteResults \/ ChmodResults \/ KillPixel
    \/ ReadBlocks \/ RollupLevel \/ RollupReturn \/ PerCapita
    \/ OpenView \/ WriteView \/ ChmodView
    \/ OpenPopulation \/ WritePopulation \/ KillHierarchy

\* the same two runs with their writes taken step by step, either of which
\* may be stopped from outside at any step
SpecInterrupted == Init /\ [][NextInterrupted]_vars

(***************************************************************************)
(* The two launcher scripts, 01_pixel_main_parallel.py and                 *)
(* 02_pixel_hierarchy_mean_parallel.py.  Each builds one workflow of the   *)
(* scheduler and runs it; the scheduler starts a task of a workflow once   *)
(* the tasks added as its upstreams are done.  The lists are cut short:    *)
(* one of the two hierarchies, two of the seven models, one of the three   *)
(* scenarios, two blocks.                                                  *)
(***************************************************************************)
\* how many tasks the scheduler runs at a time in the model (the workflows
\* ask for max_concurrently_running = 10000)
MaxRunning == 2

\* VARIABLE_DICT.yaml as load_yaml_dictionary returns it, in file order: one
\* variable with two adjustments
VARIABLE_DICT ==
    << [variable |-> "fldfrc",
        entries |-> << [adjustment |-> [type |-> "unadjusted", shift_type |-> "none",
                                        shift |-> "none"],
                        summary_statistic |-> [type |-> "sum"]],
                       [adjustment |-> [type |-> "shifted", shift_type |-> "percentile",
                                        shift |-> "95"],
                        summary_statistic |-> [type |-> "sum"]] >>] >>

\* heirarchies / hierarchies, models, scenarios of the launchers
WfHierarchies == <<"gbd_2021">>
WfModels == <<"ACCESS-CM2", "EC-Earth3">>
WfScenarios == <<"ssp245">>
\* modeling_frame["block_key"].unique()
BlockKeys == <<"B-0001X-0001Y", "B-0002X-0001Y">>

\* parse_yaml_dictionary(variable, adjustment_num)["summary_variable"], the
\* string as the sequence of its parts
SummaryVariableOf(variable, entry) ==
    LET adjusted_variable ==
            IF entry.adjustment.type = "shifted"
            THEN IF entry.adjustment.shift_type = "percentile"
                 THEN <<variable, "shifted" , entry.adjustment.shift>>
                 ELSE <<variable, "shifted", "min">>
            ELSE <<variable, "unadjusted">>
    IN Append(adjusted_variable, entry.summary_statistic.type)

\* ... for the entry adjustment_num of the variable in VARIABLE_DICT
SummaryVariable(variable, adjustment_num) ==
    LET d == CHOOSE x \in Range(VARIABLE_DICT) : x.variable = variable
    IN SummaryVariableOf(variable, d.entries[adjustment_num + 1])

\* pixel_mean_generation.py's parse_yaml_dictionary(variable,
\* adjustment_num)["covariate"]
CovariateOf(variable, entry) ==
    IF entry.adjustment.type = "shifted"
    THEN <<variable, entry.adjustment.type, entry.adjustment.shift,
           entry.summary_statistic.type>>
    ELSE <<variable, entry.adjustment.type>>

\* ... for the entry adjustment_num of the variable in VARIABLE_DICT
Covariate(variable, adjustment_num) ==
    LET d == CHOOSE x \in Range(VARIABLE_DICT) : x.variable = variable
    IN CovariateOf(variable, d.entries[adjustment_num + 1])

\* a task: its template and its node arguments ("none" where the template
\* has no such argument)
Task(template, variable, adjustment_num, hierarchy, model, scen, block_key) ==
    [template |-> template, variable |-> variable,
     adjustment_num |-> adjustment_num, hierarchy |-> hierarchy,
     model |-> model, scenario |-> scen, block_key |-> block_key]

\* the (variable, i) of `for variable in VARIABLE_DICT.keys(): for i in
\* range(num_adjustments)`
VariableAdjustments ==
    UNION {{<<VARIABLE_DICT[k].variable, i - 1>> : i \in DOMAIN VARIABLE_DICT[k].entries} :
             k \in DOMAIN VARIABLE_DICT}

\* 01_pixel_main_parallel.py: one task of template fld_pixel_generation for
\* every variable, adjustment, hierarchy, model and block
PixelTasks ==
    {Task("fld_pixel_generation", va[1], va[2], h, m, "none", b) :
        va \in VariableAdjustments, h \in Range(WfHierarchies),
        m \in Range(WfModels), b \in Range(BlockKeys)}

\* 02_pixel_hierarchy_mean_parallel.py: one task of template
\* hierarchy_generation for every variable, adjustment, hierarchy, model and
\* scenario, ...
HierarchyTasks ==
    {Task("hierarchy_generation", va[1], va[2], h, m, sc, "none") :
        va \in VariableAdjustments, h \in Range(WfHierarchies),
        m \in Range(WfModels), sc \in Range(WfScenarios)}

\* ... and one of template hierarchy_aggregation for every agg_key
AggregationTasks ==
    {Task("hierarchy_aggregation", va[1], va[2], h, "none", sc, "none") :
        va \in VariableAdjustments, h \in Range(WfHierarchies),
        sc \in Range(WfScenarios)}

Tasks == PixelTasks \cup HierarchyTasks \cup AggregationTasks

\* the launcher script that adds the task to its workflow
ScriptOf(t) == IF t \in PixelTasks THEN "01" ELSE "02"

\* the values `variable` and `i` keep after the loops that create the tasks
LastVariable == VARIABLE_DICT[Len(VARIABLE_DICT)].variable
LastAdjustment == Len(VARIABLE_DICT[Len(VARIABLE_DICT)].entries) - 1

\* The upstreams the launchers add.  01 adds none.  02 adds, to the
\* aggregation task of agg_key = (variable, i, hierarchy, scenario) with the
\* variable and i the loops left behind, the hierarchy_generation tasks
\* get_tasks_by_node_args finds for those arguments.
Upstream(t) ==
    IF /\ t \in AggregationTasks
       /\ t.variable = LastVariable
       /\ t.adjustment_num = LastAdjustment
    THEN {u \in HierarchyTasks : /\ u.variable = LastVariable
                                 /\ u.adjustment_num = LastAdjustment
                                 /\ u.hierarchy = t.hierarchy
                                 /\ u.scenario = t.scenario}
    ELSE {}

\* the files a task writes, each a path as the sequence of its parts
Writes(t) ==
    IF t \in PixelTasks
    THEN {<<"raw-results", t.hierarchy, t.model, t.block_key>>
          \o SummaryVariable(t.variable, t.adjustment_num) \o <<"000.parquet">>}
    ELSE IF t \in HierarchyTasks
    THEN UNION {
           {<<HIERARCHY_MAP[t.hierarchy][k]>>
            \o SummaryVariable(t.variable, t.adjustment_num)
            \o <<t.scenario, t.model, VariantArg, ".parquet">>}
           \cup (IF t.scenario = "ssp245"
                 THEN {<<HIERARCHY_MAP[t.hierarchy][k], "population.parquet">>}
                 ELSE {}) :
           k \in DOMAIN HIERARCHY_MAP[t.hierarchy]}
    ELSE {<<t.hierarchy>> \o Covariate(t.variable, t.adjustment_num)
          \o <<t.scenario, "mean", VariantArg, ".parquet">>}

\* The operator runs a launcher script: its workflow is bound and run.
RunScript ==
    /\ \E script \in {"01", "02"} :
          /\ script \notin submitted
          /\ submitted' = submitted \cup {script}
    /\ UNCHANGED <<running, finished>>
    /\ UNCHANGED <<pvars, hvars, avars, mvars, bvars>>

\* The scheduler starts a task of a running workflow whose upstreams are done.
StartTask ==
    /\ Cardinality(running) < MaxRunning
    /\ \E t \in Tasks \ (running \cup finished) :
          /\ ScriptOf(t) \in submitted
          /\ Upstream(t) \subseteq finished
          /\ running' = running \cup {t}
    /\ UNCHANGED <<submitted, finished>>
    /\ UNCHANGED <<pvars, hvars, avars, mvars, bvars>>

\* A task ends.
FinishTask ==
    /\ \E t \in running :
          /\ running' = running \ {t}
          /\ finished' = finished \cup {t}
    /\ UNCHANGED submitted
    /\ UNCHANGED <<pvars, hvars, avars, mvars, bvars>>

InitWorkflow == PixelAbsent /\ HierarchyNotStarted /\ NothingSubmitted

NextWorkflow == RunScript \/ StartTask \/ FinishTask

\* the two workflows under the scheduler
SpecWorkflow == InitWorkflow /\ [][NextWorkflow]_vars

(***************************************************************************)
(* aggregate/pixel_mean_generation.py, run for one entry of the            *)
(* configuration on the directory of the result files of hierarchy_main.   *)
(***************************************************************************)
\* the --variable and --scenario arguments
VariableArg == "fldfrc"
ScenarioArg == "ssp245"

\* the entries the configuration may hold.  The shift of an entry shifted by
\* the minimum is a key the file may leave out ("absent"), leave empty
\* ("None") or set to the name of the shift type.
ConfigEntries ==
    {[adjustment |-> a, summary_statistic |-> [type |-> st]] :
        a \in {[type |-> "unadjusted", shift_type |-> "none", shift |-> "absent"],
               [type |-> "shifted", shift_type |-> "percentile", shift |-> "95"],
               [type |-> "shifted", shift_type |-> "min", shift |-> "absent"],
               [type |-> "shifted", shift_type |-> "min", shift |-> "None"],
               [type |-> "shifted", shift_type |-> "min", shift |-> "min"]},
        st \in {"sum"}}

\* filename = f"{summary_variable}_{scenario}_{model}_{variant}.parquet" of
\* hierarchy_main, as the sequence of its parts
ViewFileName(entry, mo) ==
    SummaryVariableOf(VariableArg, entry) \o <<ScenarioArg, mo, VariantArg, ".parquet">>

\* file_name = f"{covariate}_{scenario}_{model}_{variant}.parquet" of
\* create_mean_results
MeanFileName(entry, mo) ==
    CovariateOf(VariableArg, entry) \o <<ScenarioArg, mo, VariantArg, ".parquet">>

\* the file of the directory under the name, if there is one
DirFile(name) ==
    LET holders == {mo \in Range(MeanModels) :
                       produced[mo].exists /\ ViewFileName(m_entry, mo) = name}
    IN IF holders = {} THEN NoFile ELSE produced[CHOOSE mo \in holders : TRUE]

\* a row of a result file, as post_process leaves it
ViewRow(mo, l, y, w, p) ==
    [location_id |-> l, year_id |-> y, model |-> mo, scenario |-> ScenarioArg,
     variant |-> VariantArg, people_flood_days_per_capita |-> Div(w, p),
     population |-> p, people_flood_days |-> Times(Div(w, p), p)]

\* what the result file of a model may hold: the population of a location
\* and year is that of the rasters, whatever the model
ResultKinds == {"low", "high", "empty"}

ResultRows(mo, kind) ==
    IF kind = "low"
    THEN <<ViewRow(mo, 1, FirstYear, 8, 4), ViewRow(mo, 10, FirstYear, 2, 2),
           ViewRow(mo, 20, FirstYear, 0, 0)>>
    ELSE IF kind = "high"
    THEN <<ViewRow(mo, 1, FirstYear, 24, 4), ViewRow(mo, 10, FirstYear, 6, 2),
           ViewRow(mo, 20, FirstYear, 0, 0)>>
    ELSE <<>>

RECURSIVE SumNumerators(_, _, _)
\* the sum of the numerators of column col over the positions I of df
SumNumerators(df, I, col) ==
    IF I = {} THEN 0
    ELSE LET i == CHOOSE j \in I : TRUE
         IN df[i][col].n + SumNumerators(df, I \ {i}, col)

\* the mutant of NanMean: the sum is divided by the number of the models
NanMeanOverAllModels(df, I, col) ==
    LET V == {i \in I : df[i][col].k # "nan"}
    IN IF V = {} THEN NaN
       ELSE Num(SumNumerators(df, V, col),
                df[CHOOSE i \in V : TRUE][col].d * Len(MeanModels))

\* the mean of column col over the positions I of df, as groupby().agg
\* "mean" takes it: NaN is left out, and the mean of nothing is NaN.  The
\* values of a group share their denominator.
NanMean(df, I, col) ==
    LET V == {i \in I : df[i][col].k # "nan"}
    IN IF V = {} THEN NaN
       ELSE Num(SumNumerators(df, V, col),
                df[CHOOSE i \in V : TRUE][col].d * Cardinality(V))

\* combined_df["model"] = "mean"; groupby(["location_id", "year_id", "model",
\* "scenario", "variant"]).agg(mean).reset_index()
GroupMean(df) ==
    LET asFloat == [i \in DOMAIN df |->
                       [df[i] EXCEPT !.population = Num(df[i].population, 1)]]
        keys == {<<df[i].location_id, df[i].year_id, df[i].scenario, df[i].variant>> :
                    i \in DOMAIN df}
        group(k) == {i \in DOMAIN df :
                        <<df[i].location_id, df[i].year_id, df[i].scenario,
                          df[i].variant>> = k}
    IN SeqByLocYear(
          {[location_id |-> k[1], year_id |-> k[2], model |-> "mean",
            scenario |-> k[3], variant |-> k[4],
            people_flood_days |-> NanMean(asFloat, group(k), "people_flood_days"),
            people_flood_days_per_capita |->
                NanMean(asFloat, group(k), "people_flood_days_per_capita"),
            population |-> NanMean(asFloat, group(k), "population")] : k \in keys})

RECURSIVE ReadModels(_)
\* df_list concatenated: the rows of the files found, in the order of the
\* models
ReadModels(models) ==
    IF models = <<>> THEN <<>>
    ELSE LET f == DirFile(MeanFileName(m_entry, models[1]))
         IN (IF f.exists THEN f.rows ELSE <<>>) \o ReadModels(Tail(models))

\* The script: parse_yaml_dictionary at import, whose covariate of a shifted
\* entry reads entry['adjustment']['shift'], and create_mean_results.
PixelMeanGeneration ==
    /\ mpc = "start"
    /\ IF m_entry.adjustment.type = "shifted" /\ m_entry.adjustment.shift = "absent"
       THEN /\ mpc' = "raised"
            /\ merr' = "KeyError"
            /\ UNCHANGED meanFile
       ELSE IF \A i \in DOMAIN MeanModels :
                  ~DirFile(MeanFileName(m_entry, MeanModels[i])).exists
            THEN /\ mpc' = "returned"
                 /\ UNCHANGED <<meanFile, merr>>
            ELSE /\ meanFile' = File(GroupMean(ReadModels(MeanModels)), "0775")
                 /\ mpc' = "done"
                 /\ UNCHANGED merr
    /\ UNCHANGED <<m_entry, produced>>
    /\ UNCHANGED <<pvars, hvars, wvars, avars, bvars>>

\* pixel_mean_generation.py about to run: each model's result file is
\* there or not
InitMean ==
    /\ PixelAbsent
    /\ HierarchyNotStarted
    /\ submitted = {} /\ running = {} /\ finished = {}
    /\ AdjustAbsent
    /\ block_files = <<>>
    /\ m_entry \in ConfigEntries
    /\ produced \in {[mo \in Range(MeanModels) |->
                         IF f[mo] = "absent" THEN NoFile
                         ELSE File(ResultRows(mo, f[mo]), "0775")] :
                     f \in [Range(MeanModels) -> ResultKinds \cup {"absent"}]}
    /\ meanFile = NoFile
    /\ mpc = "start"
    /\ merr = "none"

NextMean == PixelMeanGeneration

SpecMean == InitMean /\ [][NextMean]_vars

(***************************************************************************)
(* Claims about the roll-up and the per-capita value.                      *)
(***************************************************************************)
\* the immediate children of p in the hierarchy table
ChildrenOf(p) ==
    {h.location_id : h \in {g \in HierarchyTable :
                                g.parent_id = p /\ g.location_id # p}}

\* the positions of res that hold location l in year y
Positions(res, l, y) ==
    {i \in DOMAIN res : res[i].location_id = l /\ res[i].year_id = y}

\* the positions of res that hold a child of p in year y
ChildPositions(res, p, y) ==
    {i \in DOMAIN res : res[i].location_id \in ChildrenOf(p) /\ res[i].year_id = y}

\* the locations above the most-detailed level: they have children in the
\* table and no most-detailed record of their own
AggregateLocations ==
    {p \in {h.parent_id : h \in HierarchyTable} :
        ChildrenOf(p) # {} /\ p \notin Index(draw_df)}

\* aggregate_climate_to_hierarchy has returned its series
RollupReturned ==
    \/ hpc \in {"rolled", "views", "done"}
    \/ hpc = "raised" /\ herr.type = "AssertionError"

\* C1: once the roll-up has returned, every location above the most-detailed
\* level holds, for every year one of its children has a record of, exactly
\* one record, whose weighted_climate and population are the sums of those of
\* its immediate children for that year (and none for the other years); as
\* this holds of every such location, it holds transitively up to the root.
C1_RollupSumsChildren ==
    RollupReturned =>
        \A p \in AggregateLocations, y \in Years :
            LET own == Positions(results, p, y)
                kids == ChildPositions(results, p, y)
            IN IF kids = {} THEN own = {}
               ELSE /\ Cardinality(own) = 1
                    /\ \A i \in own :
                          /\ results[i].weighted_climate = SumWeighted(results, kids)
                          /\ results[i].population = SumPopulation(results, kids)

\* the spec's example: 10 (pop 4, wv 8) and 20 (pop 4, wv 4) give 1 (pop 8,
\* wv 12), which in turn is summed into the root
C1_Witness ==
    /\ hpc = "done"
    /\ Rec(10, FirstYear, 8, 4) \in Range(draw_df)
    /\ Rec(20, FirstYear, 4, 4) \in Range(draw_df)
    /\ Rec(2, FirstYear, 2, 1) \in Range(draw_df)
    /\ Rec(1, FirstYear, 12, 8) \in Range(results)
    /\ Rec(0, FirstYear, 14, 9) \in Range(results)

\* the rows of level lvl that are absent from the working set and whose own
\* parent is absent from it too
Unresolved(res, lvl) ==
    {h \in ParentMap(lvl) :
        h.location_id \notin Index(res) /\ h.parent_id \notin Index(res)}

RaisedIntegrityError == hpc = "raised" /\ herr.type = "ValueError"

NothingWritten == \A q \in ViewPaths : outFiles[q] = NoFile

\* C2 as claimed: the data-integrity error names every location of the level
\* being processed that is absent together with its parent.
C2_ErrorNamesAbsentLocation ==
    RaisedIntegrityError =>
        \A h \in Unresolved(results, level) : h.location_id \in herr.ids

\* C2 as amended: when a location of the level being processed is absent from
\* the working set and its own parent is absent too, the roll-up raises a
\* ValueError and returns nothing (no step follows, nothing is written), and
\* the error names the absent parents of the absent locations, not the
\* absent locations themselves.
C2_ErrorNamesMissingParents ==
    /\ [][/\ (hpc = "rollup" /\ level >= 1 /\ Unresolved(results, level) # {})
               => /\ hpc' = "raised"
                  /\ herr'.type = "ValueError"
                  /\ herr'.ids = {h.parent_id : h \in Unresolved(results, level)}
                  /\ herr'.ids \cap {h.location_id : h \in Unresolved(results, level)} = {}
                  /\ results' = results
           /\ hpc # "raised"]_vars
    /\ [](RaisedIntegrityError => combined = <<>> /\ NothingWritten)

\* location 99 is absent and so is its parent 2: the error names 2
C2_Witness ==
    /\ RaisedIntegrityError
    /\ level = 2
    /\ {10, 20} \subseteq Index(results)
    /\ 99 \notin Index(results)
    /\ 2 \notin Index(results)
    /\ herr.ids = {2}

\* C3: every record of a written subset view has a per-capita value that is
\* finite and >= 0, and 0 when the population of the location-year is 0.
C3_PerCapitaFiniteNonNegative ==
    \A q \in ViewPaths :
        (q[2] = "result" /\ outFiles[q].exists) =>
            \A i \in DOMAIN outFiles[q].rows :
                LET r == outFiles[q].rows[i]
                IN /\ IsNonNegative(r.people_flood_days_per_capita)
                   /\ r.population = 0 => IsZero(r.people_flood_days_per_capita)

(***************************************************************************)
(* Claims about build_location_masks and pixel_main.                       *)
(***************************************************************************)
\* C4: every window of the bounds map lies inside the tile:
\* 0 <= row_start <= row_stop <= height, 0 <= col_start <= col_stop <= width.
C4_WindowInsideTile ==
    \A loc \in DOMAIN bounds_map :
        /\ 0 <= bounds_map[loc].rows[1]
        /\ bounds_map[loc].rows[1] <= bounds_map[loc].rows[2]
        /\ bounds_map[loc].rows[2] <= height
        /\ 0 <= bounds_map[loc].cols[1]
        /\ bounds_map[loc].cols[1] <= bounds_map[loc].cols[2]
        /\ bounds_map[loc].cols[2] <= width

\* a shape that sticks out of the top of the big tile and ends inside it:
\* its rows are clamped at 0, its columns are the buffered ones
C4_Witness ==
    /\ ppc = "scenarios"
    /\ width = BigTile
    /\ \E loc \in DOMAIN bounds_map :
          /\ GeometryOf(shape_values, loc).ymax > RasterBounds(width, height).ymax
          /\ bounds_map[loc].rows[1] = 0
          /\ bounds_map[loc].rows[2] < height
          /\ bounds_map[loc].cols[1] > 0
          /\ bounds_map[loc].cols[2] < width

RECURSIVE SumInts(_, _)
\* the sum of f over the set S, f a function to the integers
SumInts(f, S) ==
    IF S = {} THEN 0
    ELSE LET x == CHOOSE z \in S : TRUE IN f[x] + SumInts(f, S \ {x})

\* the population summed over the pixels of P whose sample is not NaN
ExpectedPopulation(y, P) ==
    LET Q == {x \in P : PopSample(pop_raster, y, x[1], x[2]).k # "nan"}
    IN SumInts([x \in Q |-> PopSample(pop_raster, y, x[1], x[2]).n], Q)

\* population x climate summed over the pixels of P where neither is NaN
ExpectedWeighted(sc, y, P) ==
    LET Q == {x \in P : /\ PopSample(pop_raster, y, x[1], x[2]).k # "nan"
                        /\ ClimArr(climate, sc, y, x[1], x[2]).k # "nan"}
    IN SumInts([x \in Q |-> PopSample(pop_raster, y, x[1], x[2]).n
                             * ClimArr(climate, sc, y, x[1], x[2]).n], Q)

\* the climate summed over the pixels of P where it is not NaN
ClimateSum(sc, y, P) ==
    LET Q == {x \in P : ClimArr(climate, sc, y, x[1], x[2]).k # "nan"}
    IN SumInts([x \in Q |-> ClimArr(climate, sc, y, x[1], x[2]).n], Q)

\* the positions of the written file that hold (loc, y, sc)
FileRows(loc, y, sc) ==
    {i \in DOMAIN rawFile.rows :
        /\ rawFile.rows[i].location_id = loc
        /\ rawFile.rows[i].year_id = y
        /\ rawFile.rows[i].scenario = sc}

\* the two disjoint 2 x 2 shapes of the example, 10 and 20, and no other
TwoQuadrants ==
    /\ {shape_values[i] : i \in DOMAIN shape_values}
          = {Shape(TopLeft, 10), Shape(BottomRight, 20)}

\* C5: the file pixel_main writes holds, for every location of the bounds
\* map, every year and every scenario the model has a file for, one record,
\* whose population is the sum of the population samples over the true pixels
\* of the mask and whose weighted_climate is the sum of population x climate
\* over the same pixels (NaN samples left out); with a population of all ones
\* and the two disjoint 2 x 2 shapes, each location has population 4 and the
\* sum of the climate of its quadrant.
C5_MaskedSums ==
    ppc = "done" =>
        \A loc \in DOMAIN bounds_map, y \in Years, i \in DOMAIN Scenarios :
            LET sc == Scenarios[i]
                I == FileRows(loc, y, sc)
                mask == bounds_map[loc].mask
            IN IF sc \notin available THEN I = {}
               ELSE /\ Cardinality(I) = 1
                    /\ \A k \in I :
                          /\ rawFile.rows[k].measure = Measure
                          /\ rawFile.rows[k].population = ExpectedPopulation(y, mask)
                          /\ rawFile.rows[k].weighted_climate = ExpectedWeighted(sc, y, mask)
                          /\ (pop_raster = "ones" /\ TwoQuadrants) =>
                                /\ rawFile.rows[k].population = 4
                                /\ rawFile.rows[k].weighted_climate
                                     = ClimateSum(sc, y,
                                          IF loc = 10 THEN (0..1) \X (0..1)
                                                      ELSE (2..3) \X (2..3))

\* the example, written for all three scenarios
C5_Witness ==
    /\ ppc = "done"
    /\ pop_raster = "ones"
    /\ climate = "valid"
    /\ TwoQuadrants
    /\ available = Range(Scenarios)
    /\ Len(rawFile.rows) = 2 * NYears * 3
    /\ \E k \in DOMAIN rawFile.rows :
          /\ rawFile.rows[k].location_id = 20
          /\ rawFile.rows[k].scenario = "ssp126"
          /\ rawFile.rows[k].year_id = FirstYear
          /\ rawFile.rows[k].population = 4
          /\ rawFile.rows[k].weighted_climate = 16

\* a population sample is valid when it is neither NaN nor the no-data value
\* the raster declares
ValidPop(y, x) ==
    /\ PopSample(pop_raster, y, x[1], x[2]).k # "nan"
    /\ PopSample(pop_raster, y, x[1], x[2]) # PopNoData(pop_raster)

\* C6: no-data and missing samples are left out of the sums: the
\* weighted_climate of a record is the sum of population x climate over the
\* pixels of the mask where both samples are valid, and its population is the
\* sum over the pixels whose population sample is valid; the no-data value of
\* the population raster is never added.
C6_NoDataExcluded ==
    \A k \in DOMAIN rawFile.rows :
        LET r == rawFile.rows[k]
            mask == bounds_map[r.location_id].mask
            popOk == {x \in mask : ValidPop(r.year_id, x)}
            bothOk == {x \in popOk :
                          ClimArr(climate, r.scenario, r.year_id, x[1], x[2]).k # "nan"}
        IN /\ r.population
                = SumInts([x \in popOk |-> PopSample(pop_raster, r.year_id, x[1], x[2]).n],
                          popOk)
           /\ r.weighted_climate
                = SumInts([x \in bothOk |->
                              PopSample(pop_raster, r.year_id, x[1], x[2]).n
                              * ClimArr(climate, r.scenario, r.year_id, x[1], x[2]).n],
                          bothOk)

\* the locations whose shape rasterizes to no pixel
EmptyMaskLocations == {loc \in DOMAIN bounds_map : bounds_map[loc].mask = {}}

\* C7: a location with an empty mask has, in the block file, one record for
\* every year and every scenario with a file, with weighted_climate 0 and
\* population 0; and no file written for it, the block file or a subset view,
\* holds a NaN.
C7_EmptyMaskNoNaN ==
    \A loc \in EmptyMaskLocations :
        /\ ppc = "done" =>
              \A y \in Years, sc \in available :
                  /\ Cardinality(FileRows(loc, y, sc)) = 1
                  /\ \A k \in FileRows(loc, y, sc) :
                        /\ rawFile.rows[k].weighted_climate = 0
                        /\ rawFile.rows[k].population = 0
        /\ \A q \in ViewPaths :
              (q[2] = "result" /\ outFiles[q].exists) =>
                  \A i \in DOMAIN outFiles[q].rows :
                      outFiles[q].rows[i].location_id = loc =>
                          /\ outFiles[q].rows[i].people_flood_days_per_capita.k # "nan"
                          /\ outFiles[q].rows[i].people_flood_days.k # "nan"

\* C8: on a raster whose CRS MAX_BOUNDS does not list, pixel_main dies of
\* "Unsupported CRS" in get_bbox: no shape is selected, no mask is built, no
\* record is made and no file is written.
C8_UnsupportedCRSRaises ==
    (crs \notin DOMAIN MAX_BOUNDS /\ ppc # "start") =>
        /\ ppc = "raised"
        /\ perr = "Unsupported CRS"
        /\ shape_values = <<>>
        /\ bounds_map = <<>>
        /\ result_records = <<>>
        /\ rawFile = NoFile

C8_Witness ==
    /\ crs = "EPSG:4326"
    /\ ppc = "raised"
    /\ perr = "Unsupported CRS"
    /\ raking_shapes # <<>>
    /\ available # {}

\* the rows of the written file of scenario sc, in the order of the file
FileOfScenario(sc) ==
    SelectSeqBy(rawFile.rows, {i \in DOMAIN rawFile.rows : rawFile.rows[i].scenario = sc})

\* C9: a scenario the model has no file for is skipped without an error: the
\* file is written, holds no record of that scenario, and holds of every
\* other scenario the records it holds when that scenario alone is asked for.
C9_MissingScenarioSkipped ==
    /\ ppc = "raised" => perr \in {"Unsupported CRS", "Area change"}
    /\ ppc = "done" =>
          /\ rawFile.exists
          /\ \A i \in DOMAIN Scenarios :
                IF Scenarios[i] \in available
                THEN FileOfScenario(Scenarios[i])
                        = SortValues(ScenarioRecords(Scenarios[i]))
                ELSE FileOfScenario(Scenarios[i]) = <<>>

\* the first and the last scenario are skipped, the middle one is written
C9_Witness ==
    /\ ppc = "done"
    /\ available = {"ssp245"}
    /\ rawFile.exists
    /\ Len(rawFile.rows) = NYears * 2
    /\ Len(shape_values) = 2

\* no scenario has a file: the file is written and empty
C9_WitnessEmpty ==
    /\ ppc = "done"
    /\ available = {}
    /\ shape_values # <<>>
    /\ rawFile.exists
    /\ rawFile.rows = <<>>

\* how many positions of s hold x
CountIn(s, x) == Cardinality({i \in DOMAIN s : s[i] = x})

\* C10: the written records are the appended ones, ascending by (location_id,
\* year_id), and records with the same (location_id, year_id) keep the order
\* in which they were appended, the order of the loop over the scenarios.
C10_SortedStable ==
    ppc = "done" =>
        LET rows == rawFile.rows
        IN /\ Len(rows) = Len(result_records)
           /\ \A i \in DOMAIN rows : CountIn(rows, rows[i]) = CountIn(result_records, rows[i])
           /\ \A i, j \in DOMAIN rows :
                 i < j =>
                    /\ ~LocYearLess(rows[j], rows[i])
                    /\ (rows[i].location_id = rows[j].location_id
                        /\ rows[i].year_id = rows[j].year_id)
                       => ScenarioIndex(rows[i].scenario) < ScenarioIndex(rows[j].scenario)

\* location 20 comes before location 10 in the loop, and two scenarios are
\* written: the sort moves records and has ties to keep
C10_Witness ==
    /\ ppc = "done"
    /\ Len(shape_values) >= 2
    /\ shape_values[1].location_id = 20
    /\ {"ssp126", "ssp585"} \subseteq available
    /\ rawFile.rows # result_records
    /\ rawFile.rows[1].location_id = 2
    /\ rawFile.rows[1].scenario = "ssp126"
    /\ rawFile.rows[2].location_id = 2
    /\ rawFile.rows[2].year_id = rawFile.rows[1].year_id

(***************************************************************************)
(* Claims about the writes, the task graph and the views.                  *)
(***************************************************************************)
\* the paths the two programs write to, with the file at each
FinalPaths == {rawFile} \cup {outFiles[q] : q \in ViewPaths}

\* C11: at no point of a run of pixel_main or hierarchy_main, stopped or not,
\* is there at a final path a file that is not completely written.
C11_NoPartialFileAtFinalPath ==
    \A f \in FinalPaths : f.exists => f.closed

\* C12: after a write operation completes, the file it wrote has mode 0775:
\* the per-block result file, every subset view's result file and every
\* subset view's population file.
C12_WrittenFilesAre0775 ==
    \A f \in FinalPaths : f.exists => f.mode = "0775"

\* the per-block tasks whose files a hierarchy task reads
BlockTasksOf(t) ==
    {p \in PixelTasks : /\ p.variable = t.variable
                        /\ p.adjustment_num = t.adjustment_num
                        /\ p.hierarchy = t.hierarchy
                        /\ p.model = t.model}

\* C13: a hierarchy roll-up task is started only when every per-block pixel
\* task of its hierarchy, model and variable is done.
C13_RollupAfterAllBlocks ==
    \A t \in (running \cup finished) \cap HierarchyTasks :
        BlockTasksOf(t) \subseteq finished

\* C14: two distinct tasks that run at the same time, two pixel_main tasks
\* or two pixel_hierarchy tasks, write no file in common.
C14_DisjointWrites ==
    \A t1, t2 \in running :
        (t1 # t2 /\ t1.template = t2.template
         /\ t1.template \in {"fld_pixel_generation", "hierarchy_generation"})
        => Writes(t1) \cap Writes(t2) = {}

\* the result file of the subset view `name`
ViewFile(name) == outFiles[<<name, "result">>]

\* the subset views of the hierarchy of the run
ViewNames == Range(HIERARCHY_MAP[HierarchyArg])

\* C15: in a run of hierarchy_main the roll-up is over before any view is
\* written, it is not run again once it has returned (the working set it
\* returned stays as it is), and every view written is the projection of the
\* series it returned.
C15_RollupOnceBeforeViews ==
    /\ [](hpc = "rollup" => \A q \in ViewPaths : ~outFiles[q].exists)
    /\ [][(hpc \in {"rolled", "views", "done"}) =>
             (hpc' # "rollup" /\ results' = results /\ level' = level)]_vars
    /\ [](\A name \in ViewNames :
             ViewFile(name).exists =>
                ViewFile(name).rows =
                    PostProcess(FilterLocations(CombinedResults(results),
                                                SubsetLocationIds(name)),
                                PopDf(results)))

\* both views are written, and they differ: location 2 is in the first only
C15_Witness ==
    /\ hpc = "done"
    /\ \A name \in ViewNames : ViewFile(name).exists /\ ViewFile(name).rows # <<>>
    /\ \E i \in DOMAIN ViewFile("gbd_2021").rows :
          ViewFile("gbd_2021").rows[i].location_id = 2
    /\ Len(ViewFile("fhs_2021").rows) < Len(ViewFile("gbd_2021").rows)
    /\ Len(results) > Len(draw_df)

\* the positions of the aggregated series that hold the record r of a view
SeriesMatches(r) ==
    {i \in DOMAIN combined : /\ combined[i].location_id = r.location_id
                             /\ combined[i].year_id = r.year_id
                             /\ combined[i].value = r.people_flood_days_per_capita}

\* the positions of the view that hold the record c of the aggregated series
ViewMatches(name, c) ==
    {j \in DOMAIN ViewFile(name).rows :
        /\ ViewFile(name).rows[j].location_id = c.location_id
        /\ ViewFile(name).rows[j].year_id = c.year_id
        /\ ViewFile(name).rows[j].people_flood_days_per_capita = c.value}

\* C16: a written subset view holds exactly the records of the aggregated
\* series whose location is in the location list of the subset hierarchy:
\* none from outside the list, and every one from inside it, as often as the
\* series holds it.
C16_ViewIsFilteredSeries ==
    \A name \in ViewNames :
        ViewFile(name).exists =>
            /\ \A j \in DOMAIN ViewFile(name).rows :
                  /\ ViewFile(name).rows[j].location_id \in SubsetLocationIds(name)
                  /\ SeriesMatches(ViewFile(name).rows[j]) # {}
            /\ \A i \in DOMAIN combined :
                  combined[i].location_id \in SubsetLocationIds(name) =>
                      Cardinality(ViewMatches(name, combined[i]))
                          = Cardinality(SeriesMatches(
                               [location_id |-> combined[i].location_id,
                                year_id |-> combined[i].year_id,
                                people_flood_days_per_capita |-> combined[i].value]))

\* the view fhs_2021 is written from a series that holds locations inside
\* its list (0, 1, 10, 20) and outside it (2, 99)
C16_Witness ==
    /\ ViewFile("fhs_2021").exists
    /\ {1, 2, 10, 99} \subseteq {combined[i].location_id : i \in DOMAIN combined}
    /\ {ViewFile("fhs_2021").rows[j].location_id : j \in DOMAIN ViewFile("fhs_2021").rows}
          = {0, 1, 10, 20}

\* C17: a projection leaves the aggregated series and the population series
\* as they were, and projecting them again onto the location list of a view
\* already written gives the records of that view: the views do not depend on
\* the order in which they are produced.
C17_ProjectionRepeatable ==
    /\ [][(hpc = "views") => (combined' = combined /\ pop_df' = pop_df)]_vars
    /\ [](\A name \in ViewNames :
             ViewFile(name).exists =>
                PostProcess(FilterLocations(combined, SubsetLocationIds(name)),
                            pop_df) = ViewFile(name).rows)

\* after the second view, whose list leaves locations out, the first view is
\* still what a projection onto its list gives
C17_Witness ==
    /\ hpc = "done"
    /\ ViewFile("gbd_2021").exists
    /\ ViewFile("fhs_2021").exists
    /\ ViewFile("fhs_2021").rows # ViewFile("gbd_2021").rows
    /\ ViewFile("fhs_2021").rows # <<>>
    /\ Len(combined) = Len(ViewFile("gbd_2021").rows)
    /\ Len(pop_df) = Len(combined)

\* the parent of a location in the hierarchy table
ParentOf(l) == (CHOOSE h \in HierarchyTable : h.location_id = l).parent_id

RECURSIVE Ancestors(_)
\* the locations above l in the hierarchy table, up to the root (whose row
\* names itself as its parent)
Ancestors(l) ==
    IF ParentOf(l) = l THEN {} ELSE {ParentOf(l)} \cup Ancestors(ParentOf(l))

\* C18: the roll-up ends: its level stays between the deepest level and 0,
\* every pass of its loop takes it one level down, and it returns after level
\* 1; the working set it returns holds, for every detailed record (location,
\* year), a record of the year for every ancestor of the location up to the
\* root.
C18_TerminatesCoveringAllLevels ==
    /\ [](hpc = "rollup" => level \in 0..MaxLevel)
    /\ [][(hpc = "rollup" /\ hpc' = "rollup") =>
              (level >= 1 /\ level' = level - 1)]_vars
    /\ [](hpc = "rolled" =>
             /\ level = 0
             /\ \A i \in DOMAIN draw_df :
                   \A a \in Ancestors(draw_df[i].location_id) :
                       \E j \in DOMAIN results :
                           /\ results[j].location_id = a
                           /\ results[j].year_id = draw_df[i].year_id)

\* the roll-up has returned on an input with records at the deepest level
\* under both level-1 locations and no record above them
C18_Witness ==
    /\ hpc = "rolled"
    /\ level = 0
    /\ Index(draw_df) = {10, 20, 99}
    /\ Index(results) = {0, 1, 2, 10, 20, 99}

\* the rows of the hierarchy table at level lvl whose location is absent
\* from the working set
AbsentAt(res, lvl) ==
    {h \in HierarchyTable : h.level = lvl /\ h.location_id \notin Index(res)}

\* some location of the level is absent, and the parent of every absent one
\* is in the working set
AbsentUnderPresentParents(res, lvl) ==
    /\ AbsentAt(res, lvl) # {}
    /\ \A h \in AbsentAt(res, lvl) : h.parent_id \in Index(res)

\* the positions of res that hold, in year y, a location of level lvl whose
\* parent is p
PresentChildren(res, lvl, p, y) ==
    {i \in DOMAIN res :
        /\ res[i].year_id = y
        /\ \E h \in HierarchyTable : /\ h.level = lvl
                                     /\ h.location_id = res[i].location_id
                                     /\ h.parent_id = p}

\* C19: a pass of the roll-up over a level with absent locations, each under
\* a parent that is in the working set, raises nothing and appends, for every
\* parent and year, one record that sums the children present in the working
\* set (and none where no child is present).
C19_AbsentUnderPresentParentSkipped ==
    [][(hpc = "rollup" /\ level >= 1 /\ AbsentUnderPresentParents(results, level)) =>
        (/\ hpc' = "rollup"
         /\ herr' = NoError
         /\ Len(results') >= Len(results)
         /\ SubSeq(results', 1, Len(results)) = results
         /\ \A p \in HierarchyLocations, y \in Years :
               LET kids == PresentChildren(results, level, p, y)
                   rows == {j \in (Len(results) + 1)..Len(results') :
                               /\ results'[j].location_id = p
                               /\ results'[j].year_id = y}
               IN IF kids = {} THEN rows = {}
                  ELSE /\ Cardinality(rows) = 1
                       /\ \A j \in rows :
                             /\ results'[j].weighted_climate = SumWeighted(results, kids)
                             /\ results'[j].population = SumPopulation(results, kids))]_vars

\* after the pass over level 2: location 10 is absent, its parent 1 has its
\* own record, and the record added for 1 is the one of its present child 20
C19_Witness ==
    /\ hpc = "rollup"
    /\ level = 1
    /\ 10 \notin Index(results)
    /\ {1, 20} \subseteq Index(draw_df)
    /\ \E i \in DOMAIN draw_df, j \in (Len(draw_df) + 1)..Len(results) :
          /\ draw_df[i].location_id = 20
          /\ results[j] = [draw_df[i] EXCEPT !.location_id = 1]

\* the positions of the most-detailed records of year y whose location is
\* below p in the hierarchy table
DetailedBelow(p, y) ==
    {i \in DOMAIN draw_df :
        draw_df[i].year_id = y /\ p \in Ancestors(draw_df[i].location_id)}

\* C20: the ratio is computed once, from the series the roll-up returned:
\* nothing holds a ratio while the levels are summed, the records the passes
\* sum carry sums only, the value of every record of every location is the
\* quotient of the record's own final weighted_climate and population, and
\* the value of a location above the most-detailed level is the quotient of
\* the sums over the most-detailed records below it.
C20_RatioOfFinalSumsAfterRollup ==
    /\ [](hpc \in {"rollup", "rolled"} =>
             /\ combined = <<>>
             /\ \A i \in DOMAIN results :
                   DOMAIN results[i] =
                       {"location_id", "year_id", "weighted_climate", "population"})
    /\ [][(combined' # combined) => (hpc = "rolled" /\ results' = results)]_vars
    /\ [](hpc \in {"views", "done"} =>
             /\ Len(combined) = Len(results)
             /\ \A i \in DOMAIN combined :
                   /\ combined[i].location_id = results[i].location_id
                   /\ combined[i].year_id = results[i].year_id
                   /\ combined[i].value =
                          Div(results[i].weighted_climate, results[i].population)
                   /\ combined[i].location_id \in AggregateLocations =>
                          combined[i].value =
                              Div(SumWeighted(draw_df,
                                      DetailedBelow(combined[i].location_id,
                                                    combined[i].year_id)),
                                  SumPopulation(draw_df,
                                      DetailedBelow(combined[i].location_id,
                                                    combined[i].year_id))))

\* children of different ratios: 10 has 8 over 4 and 20 has 4 over 4, and
\* their parent 1 gets 12 over 8, the root 14 over 9
C20_Witness ==
    /\ hpc = "done"
    /\ Rec(10, FirstYear, 8, 4) \in Range(draw_df)
    /\ Rec(20, FirstYear, 4, 4) \in Range(draw_df)
    /\ Rec(2, FirstYear, 2, 1) \in Range(draw_df)
    /\ \E i \in DOMAIN combined :
          /\ combined[i].location_id = 1
          /\ combined[i].year_id = FirstYear
          /\ combined[i].value = Num(12, 8)
    /\ \E i \in DOMAIN combined :
          /\ combined[i].location_id = 0
          /\ combined[i].year_id = FirstYear
          /\ combined[i].value = Num(14, 9)

(***************************************************************************)
(* Claims about the masks of a block.                                      *)
(***************************************************************************)
\* the pixels of the window of loc in the bounds map
WindowPixels(loc) ==
    ((bounds_map[loc].rows[1])..(bounds_map[loc].rows[2] - 1))
        \X ((bounds_map[loc].cols[1])..(bounds_map[loc].cols[2] - 1))

\* shape i of the list covers pixel x and no later shape of the list does
DrawnLast(i, x) ==
    /\ Covers(shape_values[i].geometry, x[1], x[2])
    /\ \A j \in DOMAIN shape_values :
          j > i => ~Covers(shape_values[j].geometry, x[1], x[2])

\* C21: the mask of a location holds exactly the pixels of its buffered
\* window that a shape of the location covers and no shape later in the list
\* covers: of the shapes over a pixel, the one drawn last owns it.
C21_MaskIsOwnedPixelsOfWindow ==
    \A loc \in DOMAIN bounds_map :
        /\ bounds_map[loc].mask \subseteq WindowPixels(loc)
        /\ \A x \in WindowPixels(loc) :
              x \in bounds_map[loc].mask <=>
                  \E i \in DOMAIN shape_values :
                      shape_values[i].location_id = loc /\ DrawnLast(i, x)

\* the shape of 10 in the top left and then the shape of 20 in the centre:
\* pixel (1, 1) lies in both and is in the mask of 20 alone, while (0, 0) is
\* in the mask of 10
C21_Witness ==
    /\ ppc = "scenarios"
    /\ shape_values = <<Shape(TopLeft, 10), Shape(Centre, 20)>>
    /\ <<1, 1>> \in bounds_map[20].mask
    /\ <<1, 1>> \in WindowPixels(10) \ bounds_map[10].mask
    /\ <<0, 0>> \in bounds_map[10].mask

\* C26: no pixel is in the masks of two locations, and a pixel in a mask is
\* covered by a shape of the list: a pixel no shape covers is in no mask.
C26_MasksDisjoint ==
    /\ \A l1 \in DOMAIN bounds_map, l2 \in DOMAIN bounds_map :
          l1 # l2 => bounds_map[l1].mask \cap bounds_map[l2].mask = {}
    /\ \A loc \in DOMAIN bounds_map : \A x \in bounds_map[loc].mask :
          \E i \in DOMAIN shape_values : Covers(shape_values[i].geometry, x[1], x[2])

\* three shapes, two of which overlap, and a pixel of the block that none of
\* them covers although it is in the window of each
C26_Witness ==
    /\ ppc = "scenarios"
    /\ shape_values = <<Shape(BottomLeft, 2), Shape(Centre, 20), Shape(TopLeft, 10)>>
    /\ \A loc \in {2, 10, 20} : <<0, 3>> \in WindowPixels(loc) \ bounds_map[loc].mask
    /\ <<1, 1>> \in bounds_map[10].mask
    /\ <<2, 1>> \in bounds_map[20].mask

(***************************************************************************)
(* Claims about the daily adjustment.                                      *)
(***************************************************************************)
\* the days whose input value is neither missing nor negative
ValidDays == {i \in DOMAIN daily : daily[i].k = "num" /\ daily[i].n >= 0}

\* the j-th smallest of the values of the valid days: v with fewer than j
\* values below it and at least j values not above it
OrderStatistic(j) ==
    CHOOSE v \in {daily[i].n : i \in ValidDays} :
        /\ Cardinality({i \in ValidDays : daily[i].n < v}) < j
        /\ Cardinality({i \in ValidDays : daily[i].n <= v}) >= j

\* the shift the entry asks for, from the values of the valid days alone;
\* four times the percentile is written out to stay in the integers
IsShiftOfValidDays(sh) ==
    IF adjustment.shift_type = "min"
    THEN /\ \E i \in ValidDays : daily[i].n = sh
         /\ \A i \in ValidDays : sh <= daily[i].n
    ELSE LET n == Cardinality(ValidDays)
             pos == adjustment.shift * (n - 1)
             lo == (pos \div 4) + 1
             hi == IF lo < n THEN lo + 1 ELSE n
         IN 4 * sh = 4 * OrderStatistic(lo)
                       + (pos % 4) * (OrderStatistic(hi) - OrderStatistic(lo))

\* C22: for a shifted adjustment, the saved values of a pixel have a shift
\* that is the minimum or the percentile of the values of its valid days;
\* on a valid day the output is max(0, input - shift), which is not
\* negative; on a day whose input is missing or negative the output is
\* missing; and a pixel with no valid day is all missing.
C22_ShiftedFromValidClampedAtZero ==
    (apc = "saved" /\ adjustment.type = "shifted") =>
        /\ Len(adjusted) = Len(daily)
        /\ \A i \in DOMAIN daily \ ValidDays : adjusted[i] = NaN
        /\ ValidDays # {} =>
              \E sh \in (-8)..8 :
                  /\ IsShiftOfValidDays(sh)
                  /\ \A i \in ValidDays :
                        /\ adjusted[i] = Num(Max(0, daily[i].n - sh), 1)
                        /\ adjusted[i].n >= 0
        /\ ValidDays = {} /\ (\A i \in DOMAIN daily : daily[i] = NaN) =>
              adjusted = daily

\* a pixel with a negative day, a day below the median of the valid days and
\* a day above it: 0.5 quantile of (0, 8) is 4, so 0 is clamped to 0, 8 gives
\* 4 and the negative day is missing
C22_Witness ==
    /\ apc = "saved"
    /\ adjustment = [type |-> "shifted", shift_type |-> "percentile", shift |-> 2]
    /\ daily = <<Num(8, 1), Num(-4, 1), Num(0, 1)>>
    /\ adjusted = <<Num(4, 1), NaN, Num(0, 1)>>

(***************************************************************************)
(* Claims about the mean of the models.                                    *)
(***************************************************************************)
\* the hierarchy tasks whose files the mean task t averages
ModelTasksOf(t) ==
    {u \in HierarchyTasks : /\ u.variable = t.variable
                            /\ u.adjustment_num = t.adjustment_num
                            /\ u.hierarchy = t.hierarchy
                            /\ u.scenario = t.scenario}

\* C23: a mean task is started only when every hierarchy task of its
\* variable, adjustment number, hierarchy and scenario, one per model, is
\* done.
C23_MeanAfterAllModels ==
    \A t \in (running \cup finished) \cap AggregationTasks :
        ModelTasksOf(t) \subseteq finished

\* the models whose result file is there under the name create_mean_results
\* looks up
ModelsFound ==
    {mo \in Range(MeanModels) : DirFile(MeanFileName(m_entry, mo)).exists}

\* the rows of location l and year y in the files of the models found, as
\* pairs (model, position)
RowsOfKey(l, y) ==
    {x \in ModelsFound \X (1..3) :
        /\ x[2] \in DOMAIN produced[x[1]].rows
        /\ produced[x[1]].rows[x[2]].location_id = l
        /\ produced[x[1]].rows[x[2]].year_id = y}

\* C24: an absent model file makes no error (the script dies only of the
\* entry it cannot name, whatever files there are); with no file found
\* nothing is written; with some, the mean file holds one record for every
\* (location, year) of the files found and no other, whose population is the
\* sum over the records of the models found divided by their number, and
\* likewise its per-capita value where the population is not 0.
C24_MeanOverModelsFound ==
    mpc # "start" =>
        /\ mpc = "raised" <=> (/\ m_entry.adjustment.type = "shifted"
                               /\ m_entry.adjustment.shift = "absent")
        /\ mpc = "raised" => meanFile = NoFile
        /\ (mpc # "raised" /\ ModelsFound = {}) => (mpc = "returned" /\ meanFile = NoFile)
        /\ (mpc # "raised" /\ ModelsFound # {}) =>
              /\ mpc = "done"
              /\ meanFile.exists
              /\ \A l \in HierarchyLocations, y \in Years :
                    LET src == RowsOfKey(l, y)
                        out == {i \in DOMAIN meanFile.rows :
                                   /\ meanFile.rows[i].location_id = l
                                   /\ meanFile.rows[i].year_id = y}
                        pop == [x \in src |-> produced[x[1]].rows[x[2]].population]
                        pc == [x \in src |->
                                  produced[x[1]].rows[x[2]].people_flood_days_per_capita.n]
                    IN IF src = {} THEN out = {}
                       ELSE /\ Cardinality(out) = 1
                            /\ \A i \in out :
                                  /\ meanFile.rows[i].model = "mean"
                                  /\ meanFile.rows[i].population
                                        = Num(SumInts(pop, src), Cardinality(src))
                                  /\ \A x \in src : pop[x] > 0 =>
                                        meanFile.rows[i].people_flood_days_per_capita
                                          = Num(SumInts(pc, src),
                                                pop[x] * Cardinality(src))

\* two of the three files are there, one low and one high, under the names
\* looked up: location 1 has the mean of 8/4 and 24/4 over two models
C24_Witness ==
    /\ mpc = "done"
    /\ m_entry.adjustment.shift_type = "percentile"
    /\ ~produced["ACCESS-CM2"].exists
    /\ produced["EC-Earth3"] = File(ResultRows("EC-Earth3", "low"), "0775")
    /\ produced["INM-CM5-0"] = File(ResultRows("INM-CM5-0", "high"), "0775")
    /\ \E i \in DOMAIN meanFile.rows :
          /\ meanFile.rows[i].location_id = 1
          /\ meanFile.rows[i].people_flood_days_per_capita = Num(32, 8)
          /\ meanFile.rows[i].population = Num(8, 2)

\* C27: for every entry of the configuration, the name create_mean_results
\* looks up for a model is the name under which hierarchy_main wrote the
\* result file of the model, so that the files it finds are the files that
\* were produced.
C27_MeanReadsWhatHierarchyWrote ==
    /\ \A mo \in Range(MeanModels) :
          MeanFileName(m_entry, mo) = ViewFileName(m_entry, mo)
    /\ mpc \in {"done", "returned"} =>
          ModelsFound = {mo \in Range(MeanModels) : produced[mo].exists}

(***************************************************************************)
(* Claims about the series of the roll-up and the block files.             *)
(***************************************************************************)
\* C25: the series the roll-up returns holds at most one record for each
\* (location_id, year_id), whatever detailed input with unique keys it was
\* given.
C25_SeriesIsMapping ==
    RollupReturned =>
        \A l \in HierarchyLocations, y \in Years :
            Cardinality(Positions(results, l, y)) <= 1

\* hierarchy_main has read the block files and built the detailed records
BlocksRead ==
    \/ hpc \in {"rollup", "rolled", "views", "done"}
    \/ hpc = "raised" /\ herr.type \in {"ValueError", "AssertionError"}

\* the records of location l, year y and scenario sc in the block files, as
\* pairs (file, position)
BlockRecords(l, y, sc) ==
    {x \in (DOMAIN BlockFiles) \X (1..3) :
        /\ x[2] \in DOMAIN BlockFiles[x[1]].rows
        /\ BlockFiles[x[1]].rows[x[2]].location_id = l
        /\ BlockFiles[x[1]].rows[x[2]].year_id = y
        /\ BlockFiles[x[1]].rows[x[2]].scenario = sc}

\* C28: the detailed records handed to the roll-up hold, for every location
\* and year with a record of the requested scenario in some block file,
\* exactly one record, whose weighted_climate and population are the sums
\* over those records of all the blocks; the records of the other scenarios
\* add nothing, and a location and year without such a record has none.
C28_DetailedIsSumOverBlocks ==
    BlocksRead =>
        \A l \in HierarchyLocations, y \in Years :
            LET src == BlockRecords(l, y, scenario)
                own == Positions(draw_df, l, y)
                w == [x \in src |-> BlockFiles[x[1]].rows[x[2]].weighted_climate]
                pp == [x \in src |-> BlockFiles[x[1]].rows[x[2]].population]
            IN IF src = {} THEN own = {}
               ELSE /\ Cardinality(own) = 1
                    /\ \A i \in own :
                          /\ draw_df[i].weighted_climate = SumInts(w, src)
                          /\ draw_df[i].population = SumInts(pp, src)

\* location 10 lies in two blocks: for ssp245 its record is the sum of the
\* two, and its ssp126 record in the first block is left out
C28_Witness ==
    /\ hpc = "done"
    /\ scenario = "ssp245"
    /\ rawFile = BlockFile("west")
    /\ block_files = <<BlockFile("east"), BlockFile("empty")>>
    /\ Rec(10, FirstYear, 6, 6) \in Range(draw_df)
    /\ Rec(20, FirstYear, 2, 1) \in Range(draw_df)
    /\ Rec(99, FirstYear, 6, 3) \in Range(draw_df)

\* C29: when the file of a block of the modeling frame is not there,
\* hierarchy_main dies in the read of the blocks: no detailed record is
\* built, no roll-up is run and no view or population file is written.
C29_AbsentBlockFails ==
    ((\E i \in DOMAIN BlockFiles : ~BlockFiles[i].exists) /\ hpc # "idle") =>
        /\ hpc = "raised"
        /\ herr.type = "FileNotFoundError"
        /\ draw_df = <<>>
        /\ results = <<>>
        /\ combined = <<>>
        /\ NothingWritten

\* the first two blocks have their files, with records of the scenario, and
\* the last has none
C29_Witness ==
    /\ hpc = "raised"
    /\ scenario = "ssp245"
    /\ rawFile = BlockFile("west")
    /\ block_files = <<BlockFile("east"), NoFile>>
    /\ NothingWritten

\* C30: the roll-up leaves the detailed data as they are: the caller's table
\* is not touched while it runs, a pass of its loop only appends to the
\* working set, and the series returned holds every detailed record, with
\* its values, as often as the input does.
C30_DetailedRecordsKept ==
    /\ [][(hpc = "rollup") => (draw_df' = draw_df)]_vars
    /\ [][(hpc = "rollup" /\ hpc' = "rollup") =>
             (/\ Len(results') >= Len(results)
              /\ SubSeq(results', 1, Len(results)) = results)]_vars
    /\ [](RollupReturned =>
             /\ Len(results) >= Len(draw_df)
             /\ \A i \in DOMAIN draw_df :
                   CountIn(results, draw_df[i]) >= CountIn(draw_df, draw_df[i]))

\* the roll-up has returned a series longer than its input, which holds the
\* records of 10 and 20 as they were given
C30_Witness ==
    /\ hpc = "rolled"
    /\ Rec(10, FirstYear, 8, 4) \in Range(draw_df)
    /\ Rec(20, FirstYear, 4, 4) \in Range(draw_df)
    /\ Rec(10, FirstYear, 8, 4) \in Range(results)
    /\ Rec(20, FirstYear, 4, 4) \in Range(results)
    /\ Rec(1, FirstYear, 12, 8) \in Range(results)
    /\ Len(results) > Len(draw_df)

====
